---- MODULE Spec2Model ----
(***************************************************************************)
(* Diogenes control plane: the orchestrator (scale_up, scale_down), the    *)
(* router (handle_inference) and the cluster API (manual_scale,            *)
(* get_cluster_state) running as concurrent stateless handler processes    *)
(* over one shared state store and one compute backend.                    *)
(*                                                                         *)
(* Every call a handler makes on the store or on the compute backend is    *)
(* one atomic step; the code between two such calls only touches the       *)
(* handler's locals and is folded into the step that follows it.  Records  *)
(* returned by the store are snapshots.  Both store implementations are    *)
(* modelled (DynamoDBStateStore and InMemoryStateStore); which one a run   *)
(* uses is fixed by Init.                                                  *)
(***************************************************************************)
EXTENDS Integers, Sequences, FiniteSets, TLC

(* ------------------------------ bounds --------------------------------- *)

\* number of concurrent handler processes
NumProcs == 2
\* create_key generates at most MaxKeys tokens in a run
MaxKeys == 1
\* the clock runs from 0 to MaxTime
MaxTime == 2
\* compute.launch is called at most MaxLaunches times in a run
MaxLaunches == 2

(* ------------------------- program constants --------------------------- *)

\* idle_timeout of the configured model, in seconds
IdleTimeout == 1
\* idle_timeout used by scale_down when the model has no config
DefaultIdleTimeout == 300

Procs == 1..NumProcs

\* model names used in requests: "m" is configured, "u" has no ModelConfig
Configured == {"m"}
ModelNames == {"m", "u"}

Backends == {"aws", "mock"}

\* marks an attribute a record does not have
Missing == "<missing>"
MissingInt == -1

Statuses == {"starting", "ready", "draining", "terminated"}

(* ------------------------------ records -------------------------------- *)

\* an item of the instances table; an attribute the item lacks is Missing
NoRow ==
    [instance_id |-> Missing, model |-> Missing, status |-> Missing,
     provider_instance_id |-> Missing, ip |-> Missing,
     launched_at |-> MissingInt, last_request_at |-> MissingInt]

\* the result of a lookup in the models table that finds nothing (None)
NoConfig == [name |-> Missing, instance_type |-> Missing, idle_timeout |-> MissingInt]

\* the models table (written out of band, constant during a run)
ModelsTable ==
    [m \in Configured |-> [name |-> m, instance_type |-> "g5.xlarge", idle_timeout |-> IdleTimeout]]

\* mutant: a lookup that finds nothing answers with a default config
get_model_config_or_default(name) ==
    IF name \in DOMAIN ModelsTable THEN ModelsTable[name]
    ELSE [name |-> name, instance_type |-> "g5.xlarge", idle_timeout |-> MissingInt]

\* state.get_model_config(name): the config, or None
get_model_config(name) ==
    IF name \in DOMAIN ModelsTable THEN ModelsTable[name] ELSE NoConfig

\* dict.update(fields) / UpdateExpression "SET k = v, ...": named fields only
Merge(row, fields) ==
    [k \in DOMAIN row |-> IF k \in DOMAIN fields THEN fields[k] ELSE row[k]]

\* some enumeration of a finite set as a sequence
RECURSIVE SeqOf(_)
SeqOf(S) ==
    IF S = {} THEN <<>>
    ELSE LET x == CHOOSE y \in S : TRUE IN <<x>> \o SeqOf(S \ {x})

\* every enumeration of a finite set as a sequence (a scan has no order)
Orderings(S) ==
    {q \in [1..Cardinality(S) -> S] : \A i, j \in 1..Cardinality(S) : i # j => q[i] # q[j]}

(* ---------------------------- state store ------------------------------ *)

\* mutant: the status filter is ignored
ListSetAnyStatus(tbl, model, status) ==
    {tbl[i] : i \in {j \in DOMAIN tbl : model # Missing => tbl[j].model = model}}

\* mutant: a listing without a status filter leaves the tombstones out
ListSetHidesTombstones(tbl, model, status) ==
    {tbl[i] : i \in {j \in DOMAIN tbl :
        /\ (model # Missing => tbl[j].model = model)
        /\ (status # Missing => tbl[j].status = status)
        /\ (status = Missing => tbl[j].status # "terminated")}}

\* list_instances: the items matching the filters given (Missing = no filter).
\* An item without the attribute never matches a filter on it.
ListSet(tbl, model, status) ==
    {tbl[i] : i \in {j \in DOMAIN tbl :
        /\ (model # Missing => tbl[j].model = model)
        /\ (status # Missing => tbl[j].status = status)}}

\* state.list_instances(model=..., status=...) as a list
list_instances(tbl, model, status) == SeqOf(ListSet(tbl, model, status))

\* mutant: the insert is not conditional
CanClaimAlways(tbl, id) == TRUE

\* mutant: the insert is refused even when no item is there
CanClaimNever(tbl, id) == FALSE

\* put_instance_if_absent: the conditional insert and its boolean result
CanClaim(tbl, id) == id \notin DOMAIN tbl

put_instance(tbl, row) ==
    [i \in DOMAIN tbl \cup {row.instance_id} |-> IF i = row.instance_id THEN row ELSE tbl[i]]

\* mutant: the insert overwrites the item that is there
PutOverwrites(tbl, row) ==
    [i \in DOMAIN tbl \cup {row.instance_id} |-> IF i = row.instance_id THEN row ELSE tbl[i]]

put_instance_if_absent(tbl, row) ==
    IF CanClaim(tbl, row.instance_id) THEN put_instance(tbl, row) ELSE tbl

\* update_instance raises KeyError in the in-memory store when the item is
\* missing; DynamoDB's update_item creates the item from the key and the
\* fields that are set
UpdateRaises(be, tbl, id) == be = "mock" /\ id \notin DOMAIN tbl

update_instance(tbl, id, fields) ==
    LET old == IF id \in DOMAIN tbl THEN tbl[id] ELSE [NoRow EXCEPT !.instance_id = id]
    IN  put_instance(tbl, Merge(old, fields))

\* delete_instance exists on DynamoDBStateStore only; on InMemoryStateStore
\* the call raises AttributeError
DeleteRaises(be) == be = "mock"

delete_instance(tbl, id) == [i \in DOMAIN tbl \ {id} |-> tbl[i]]

(* ------------------------------- state --------------------------------- *)

VARIABLES
    backend,      \* which StateStore implementation the handlers are wired to
    now,          \* int(time.time())
    instances,    \* the instances table: instance_id -> item
    nodes,        \* nodes[n]: the model of the n-th node returned by compute.launch
    launchCalls,  \* per model, the number of compute.launch calls made
    termCalls,    \* id -> number of compute.terminate(id) calls made
    pc,           \* per process: the call it is about to make ("idle": no handler running)
    loc,          \* per process: the locals of the running handler
    ret,          \* per process at "done": what its handler returned or raised
    apiKeys,      \* the api keys table: key_hash -> item
    issued        \* the number of tokens secrets.token_urlsafe has produced

vars == <<backend, now, instances, nodes, launchCalls, termCalls, pc, loc, ret, apiKeys, issued>>

\* the locals of a handler: its model argument, the list it holds
\* (existing / stale / ready_instances / candidates), placeholder, the pair
\* returned by launch, the clock value it read, the list it returns
LocIdle ==
    [model |-> Missing, action |-> Missing, rows |-> <<>>, ph |-> NoRow,
     prov |-> Missing, ip |-> Missing, nowL |-> MissingInt, out |-> <<>>,
     token |-> Missing, key |-> Missing, email |-> Missing, name |-> Missing]

\* the outcome of a handler: what it returned or raised
NoRet ==
    [op |-> Missing, model |-> Missing, outcome |-> Missing, row |-> NoRow,
     claimed |-> Missing, code |-> 0, ids |-> <<>>, trig |-> 0, msg |-> Missing,
     cluster |-> <<>>, listed |-> <<>>, token |-> Missing, key_id |-> Missing,
     email |-> Missing, ok |-> FALSE, text |-> Missing, retry_after |-> Missing]

Ret(op, model, outcome) == [NoRet EXCEPT !.op = op, !.model = model, !.outcome = outcome]

\* f"model#{model_name}"
SlotId(m) == "model#" \o m

\* the provider id of the n-th node launched (uuid-based: never reused)
NodeId(n) == "i-" \o ToString(n)

\* the addresses launch can return: the mock returns its mock_ip; EC2 returns
\* the public address, or "" when none appeared within the polling loop
LaunchIps(be) == IF be = "aws" THEN {"", "10.0.0.1"} ELSE {"127.0.0.1"}

TermCount(id) == IF id \in DOMAIN termCalls THEN termCalls[id] ELSE 0

\* compute.terminate(id)
terminate(calls, id) ==
    [i \in DOMAIN calls \cup {id} |-> IF i \in DOMAIN calls THEN calls[i] + (IF i = id THEN 1 ELSE 0) ELSE 1]

Init ==
    /\ backend \in Backends
    /\ now = 0
    /\ instances = << >>
    /\ nodes = << >>
    /\ launchCalls = [m \in ModelNames |-> 0]
    /\ termCalls = << >>
    /\ pc = [p \in Procs |-> "idle"]
    /\ loc = [p \in Procs |-> LocIdle]
    /\ ret = [p \in Procs |-> NoRet]
    /\ apiKeys = << >>
    /\ issued = 0

\* the handler of p makes its next call
Goto(p, label, l) ==
    /\ pc' = [pc EXCEPT ![p] = label]
    /\ loc' = [loc EXCEPT ![p] = l]
    /\ UNCHANGED ret

\* the handler of p returns or raises
Finish(p, r) ==
    /\ pc' = [pc EXCEPT ![p] = "done"]
    /\ loc' = [loc EXCEPT ![p] = LocIdle]
    /\ ret' = [ret EXCEPT ![p] = r]

\* the process of p has handed the outcome to its caller and is free again
Release(p) ==
    /\ pc[p] = "done"
    /\ pc' = [pc EXCEPT ![p] = "idle"]
    /\ ret' = [ret EXCEPT ![p] = NoRet]
    /\ UNCHANGED <<apiKeys, issued, backend, now, instances, nodes, launchCalls, termCalls, loc>>

\* time passes
Tick ==
    /\ now < MaxTime
    /\ now' = now + 1
    /\ UNCHANGED <<apiKeys, issued, backend, instances, nodes, launchCalls, termCalls, pc, loc, ret>>

(* ------------------------- orchestrator.scale_up ----------------------- *)

\* orchestrator_handler receives {"action": "scale_up", "model": m}
SU_Invoke(p, m) ==
    /\ pc[p] = "idle"
    /\ Goto(p, "su_list_starting", [LocIdle EXCEPT !.model = m])
    /\ UNCHANGED <<apiKeys, issued, backend, now, instances, nodes, launchCalls, termCalls>>

\* mutant: the fast path looks at ready instances only
SU_ListStartingSkipped(p) ==
    /\ pc[p] = "su_list_starting"
    /\ Goto(p, "su_list_ready", loc[p])
    /\ UNCHANGED <<apiKeys, issued, backend, now, instances, nodes, launchCalls, termCalls>>

\* existing = state.list_instances(model=model_name, status="starting")
SU_ListStarting(p) ==
    /\ pc[p] = "su_list_starting"
    /\ Goto(p, "su_list_ready",
            [loc[p] EXCEPT !.rows = list_instances(instances, loc[p].model, "starting")])
    /\ UNCHANGED <<apiKeys, issued, backend, now, instances, nodes, launchCalls, termCalls>>

\* existing += state.list_instances(model=model_name, status="ready");
\* if existing: return existing[0]
SU_ListReady(p) ==
    /\ pc[p] = "su_list_ready"
    /\ LET existing == loc[p].rows \o list_instances(instances, loc[p].model, "ready")
       IN  IF existing # <<>>
           THEN Finish(p, [Ret("scale_up", loc[p].model, "return") EXCEPT !.row = existing[1]])
           ELSE Goto(p, "su_list_terminated", [loc[p] EXCEPT !.rows = <<>>])
    /\ UNCHANGED <<apiKeys, issued, backend, now, instances, nodes, launchCalls, termCalls>>

\* stale = state.list_instances(model=model_name, status="terminated")
SU_ListTerminated(p) ==
    /\ pc[p] = "su_list_terminated"
    /\ LET stale == list_instances(instances, loc[p].model, "terminated")
       IN  Goto(p, IF stale # <<>> THEN "su_delete" ELSE "su_get_config",
                [loc[p] EXCEPT !.rows = stale])
    /\ UNCHANGED <<apiKeys, issued, backend, now, instances, nodes, launchCalls, termCalls>>

\* for inst in stale: state.delete_instance(inst["instance_id"])
SU_Delete(p) ==
    /\ pc[p] = "su_delete"
    /\ IF DeleteRaises(backend)
       THEN /\ Finish(p, Ret("scale_up", loc[p].model, "AttributeError"))
            /\ UNCHANGED instances
       ELSE /\ instances' = delete_instance(instances, Head(loc[p].rows).instance_id)
            /\ Goto(p, IF Len(loc[p].rows) > 1 THEN "su_delete" ELSE "su_get_config",
                    [loc[p] EXCEPT !.rows = Tail(@)])
    /\ UNCHANGED <<apiKeys, issued, backend, now, nodes, launchCalls, termCalls>>

\* model_config = state.get_model_config(model_name);
\* if model_config is None: raise ValueError
SU_GetConfig(p) ==
    /\ pc[p] = "su_get_config"
    /\ IF get_model_config(loc[p].model) = NoConfig
       THEN Finish(p, Ret("scale_up", loc[p].model, "ValueError"))
       ELSE Goto(p, "su_claim", loc[p])
    /\ UNCHANGED <<apiKeys, issued, backend, now, instances, nodes, launchCalls, termCalls>>

\* mutant: the placeholder is keyed per caller instead of per model
PlaceholderIdPerCaller(p, m) == SlotId(m) \o "#" \o ToString(p)

\* placeholder_id = f"model#{model_name}"
PlaceholderId(p, m) == SlotId(m)

\* mutant: the placeholder carries no last_request_at
PlaceholderWithoutRequestTime(p, m, t) ==
    [instance_id |-> PlaceholderId(p, m), model |-> m, status |-> "starting",
     provider_instance_id |-> Missing, ip |-> "",
     launched_at |-> t, last_request_at |-> MissingInt]

\* the placeholder record built from model_config and the clock
Placeholder(p, m, t) ==
    [instance_id |-> PlaceholderId(p, m), model |-> m, status |-> "starting",
     provider_instance_id |-> Missing, ip |-> "",
     launched_at |-> t, last_request_at |-> t]

\* claimed = state.put_instance_if_absent(placeholder)
SU_Claim(p) ==
    /\ pc[p] = "su_claim"
    /\ LET ph == Placeholder(p, loc[p].model, now)
       IN  /\ instances' = put_instance_if_absent(instances, ph)
           /\ Goto(p, IF CanClaim(instances, ph.instance_id) THEN "su_launch"
                                                             ELSE "su_lost_list_starting",
                   [loc[p] EXCEPT !.ph = ph])
    /\ UNCHANGED <<apiKeys, issued, backend, now, nodes, launchCalls, termCalls>>

\* if not claimed: existing = state.list_instances(model=model_name, status="starting")
SU_LostListStarting(p) ==
    /\ pc[p] = "su_lost_list_starting"
    /\ Goto(p, "su_lost_list_ready",
            [loc[p] EXCEPT !.rows = list_instances(instances, loc[p].model, "starting")])
    /\ UNCHANGED <<apiKeys, issued, backend, now, instances, nodes, launchCalls, termCalls>>

\* mutant: the loser of the claim releases the slot before it returns
SU_LostListReadyCleans(p) ==
    /\ pc[p] = "su_lost_list_ready"
    /\ instances' = delete_instance(instances, loc[p].ph.instance_id)
    /\ Finish(p, [Ret("scale_up", loc[p].model, "return") EXCEPT
                     !.claimed = "false", !.row = loc[p].ph])
    /\ UNCHANGED <<apiKeys, issued, backend, now, nodes, launchCalls, termCalls>>

\* existing += state.list_instances(model=model_name, status="ready");
\* return existing[0] if existing else placeholder
SU_LostListReady(p) ==
    /\ pc[p] = "su_lost_list_ready"
    /\ LET existing == loc[p].rows \o list_instances(instances, loc[p].model, "ready")
       IN  Finish(p, [Ret("scale_up", loc[p].model, "return") EXCEPT
                        !.claimed = "false",
                        !.row = IF existing # <<>> THEN existing[1] ELSE loc[p].ph])
    /\ UNCHANGED <<apiKeys, issued, backend, now, instances, nodes, launchCalls, termCalls>>

\* EC2ComputeBackend.launch calls describe_instances after run_instances has
\* created the node, so it can raise with the node already running; the mock
\* creates nothing before it returns
RaisesAfterRunInstances(be) == be = "aws"

\* provider_instance_id, ip = compute.launch(model_config): the pair launch
\* returns, or the exception it raises before or after the node was created
SU_Launch(p) ==
    /\ pc[p] = "su_launch"
    /\ launchCalls[loc[p].model] < MaxLaunches
    /\ launchCalls' = [launchCalls EXCEPT ![loc[p].model] = @ + 1]
    /\ \/ \E ip \in LaunchIps(backend) :
            /\ nodes' = Append(nodes, loc[p].model)
            /\ Goto(p, "su_write_launch",
                    [loc[p] EXCEPT !.prov = NodeId(Len(nodes) + 1), !.ip = ip])
       \/ /\ UNCHANGED nodes
          /\ Goto(p, "su_launch_failed", loc[p])
       \/ /\ RaisesAfterRunInstances(backend)
          /\ nodes' = Append(nodes, loc[p].model)
          /\ Goto(p, "su_launch_failed", loc[p])
    /\ UNCHANGED <<apiKeys, issued, backend, now, instances, termCalls>>

\* except Exception: state.update_instance(placeholder_id, status="terminated"); raise
SU_LaunchFailed(p) ==
    /\ pc[p] = "su_launch_failed"
    /\ IF UpdateRaises(backend, instances, loc[p].ph.instance_id)
       THEN /\ UNCHANGED instances
            /\ Finish(p, [Ret("scale_up", loc[p].model, "KeyError") EXCEPT !.claimed = "true"])
       ELSE /\ instances' = update_instance(instances, loc[p].ph.instance_id,
                                            [status |-> "terminated"])
            /\ Finish(p, [Ret("scale_up", loc[p].model, "LaunchError") EXCEPT !.claimed = "true"])
    /\ UNCHANGED <<apiKeys, issued, backend, now, nodes, launchCalls, termCalls>>

\* state.update_instance(placeholder_id, provider_instance_id=..., ip=ip);
\* placeholder["provider_instance_id"] = ...; placeholder["ip"] = ip
SU_WriteLaunch(p) ==
    /\ pc[p] = "su_write_launch"
    /\ IF UpdateRaises(backend, instances, loc[p].ph.instance_id)
       THEN /\ UNCHANGED instances
            /\ Finish(p, [Ret("scale_up", loc[p].model, "KeyError") EXCEPT !.claimed = "true"])
       ELSE /\ instances' = update_instance(instances, loc[p].ph.instance_id,
                                [provider_instance_id |-> loc[p].prov, ip |-> loc[p].ip])
            /\ Goto(p, "su_health",
                    [loc[p] EXCEPT !.ph = Merge(@, [provider_instance_id |-> loc[p].prov,
                                                    ip |-> loc[p].ip])])
    /\ UNCHANGED <<apiKeys, issued, backend, now, nodes, launchCalls, termCalls>>

\* mutant: the loop has no deadline, so it returns only once a 200 was seen
poll_health_without_deadline(ip) == IF ip = "" THEN {} ELSE {TRUE}

\* poll_health(ip, ...): the results it can give. It returns True once
\* GET http://{ip}:8000/health answers 200 before the deadline; for an empty
\* host requests raises InvalidURL, a RequestException the loop swallows, so
\* the result is False
poll_health(ip) == IF ip = "" THEN {FALSE} ELSE {TRUE, FALSE}

\* healthy: state.update_instance(placeholder_id, status="ready",
\* last_request_at=int(time.time())); placeholder["status"] = "ready"; return placeholder
SU_MarkReady(p) ==
    /\ pc[p] = "su_health"
    /\ TRUE \in poll_health(loc[p].ip)
    /\ IF UpdateRaises(backend, instances, loc[p].ph.instance_id)
       THEN /\ UNCHANGED instances
            /\ Finish(p, [Ret("scale_up", loc[p].model, "KeyError") EXCEPT !.claimed = "true"])
       ELSE /\ instances' = update_instance(instances, loc[p].ph.instance_id,
                                [status |-> "ready", last_request_at |-> now])
            /\ Finish(p, [Ret("scale_up", loc[p].model, "return") EXCEPT
                             !.claimed = "true",
                             !.row = [loc[p].ph EXCEPT !.status = "ready"]])
    /\ UNCHANGED <<apiKeys, issued, backend, now, nodes, launchCalls, termCalls>>

\* mutant: the failed node is terminated under the slot id
SU_TerminateSlot(p) ==
    /\ pc[p] = "su_health"
    /\ termCalls' = terminate(termCalls, loc[p].ph.instance_id)
    /\ Goto(p, "su_mark_terminated", loc[p])
    /\ UNCHANGED <<apiKeys, issued, backend, now, instances, nodes, launchCalls>>

\* not healthy (poll_health returned False or raised):
\* compute.terminate(provider_instance_id)
SU_Terminate(p) ==
    /\ pc[p] = "su_health"
    /\ FALSE \in poll_health(loc[p].ip)
    /\ termCalls' = terminate(termCalls, loc[p].prov)
    /\ Goto(p, "su_mark_terminated", loc[p])
    /\ UNCHANGED <<apiKeys, issued, backend, now, instances, nodes, launchCalls>>

\* state.update_instance(placeholder_id, status="terminated");
\* placeholder["status"] = "terminated"; return placeholder
SU_MarkTerminated(p) ==
    /\ pc[p] = "su_mark_terminated"
    /\ IF UpdateRaises(backend, instances, loc[p].ph.instance_id)
       THEN /\ UNCHANGED instances
            /\ Finish(p, [Ret("scale_up", loc[p].model, "KeyError") EXCEPT !.claimed = "true"])
       ELSE /\ instances' = update_instance(instances, loc[p].ph.instance_id,
                                            [status |-> "terminated"])
            /\ Finish(p, [Ret("scale_up", loc[p].model, "return") EXCEPT
                             !.claimed = "true",
                             !.row = [loc[p].ph EXCEPT !.status = "terminated"]])
    /\ UNCHANGED <<apiKeys, issued, backend, now, nodes, launchCalls, termCalls>>

ScaleUpStep(p) ==
    \/ SU_ListStarting(p)
    \/ SU_ListReady(p)
    \/ SU_ListTerminated(p)
    \/ SU_Delete(p)
    \/ SU_GetConfig(p)
    \/ SU_Claim(p)
    \/ SU_LostListStarting(p)
    \/ SU_LostListReady(p)
    \/ SU_Launch(p)
    \/ SU_LaunchFailed(p)
    \/ SU_WriteLaunch(p)
    \/ SU_MarkReady(p)
    \/ SU_Terminate(p)
    \/ SU_MarkTerminated(p)


(* ------------------------ orchestrator.scale_down ---------------------- *)

\* orchestrator_handler receives {"action": "scale_down"}; now = int(time.time())
SD_Invoke(p) ==
    /\ pc[p] = "idle"
    /\ Goto(p, "sd_list", [LocIdle EXCEPT !.nowL = now])
    /\ UNCHANGED <<apiKeys, issued, backend, now, instances, nodes, launchCalls, termCalls>>

\* mutant: the listing is taken without the status filter
SD_ListAnyStatus(p) ==
    /\ pc[p] = "sd_list"
    /\ \E q \in Orderings(ListSet(instances, Missing, Missing)) :
          IF Len(q) = 0
          THEN Finish(p, Ret("scale_down", Missing, "return"))
          ELSE Goto(p, "sd_check", [loc[p] EXCEPT !.rows = q])
    /\ UNCHANGED <<apiKeys, issued, backend, now, instances, nodes, launchCalls, termCalls>>

\* ready_instances = state.list_instances(status="ready")
SD_List(p) ==
    /\ pc[p] = "sd_list"
    /\ \E q \in Orderings(ListSet(instances, Missing, "ready")) :
          IF Len(q) = 0
          THEN Finish(p, Ret("scale_down", Missing, "return"))
          ELSE Goto(p, "sd_check", [loc[p] EXCEPT !.rows = q])
    /\ UNCHANGED <<apiKeys, issued, backend, now, instances, nodes, launchCalls, termCalls>>

\* idle_timeout = int(model_config.get("idle_timeout", 300)) if model_config else 300
IdleTimeoutOf(cfg) ==
    IF cfg = NoConfig \/ cfg.idle_timeout = MissingInt THEN DefaultIdleTimeout
    ELSE cfg.idle_timeout

\* int(inst.get("last_request_at", inst.get("launched_at", 0)))
LastRequest(inst) ==
    IF inst.last_request_at # MissingInt THEN inst.last_request_at
    ELSE IF inst.launched_at # MissingInt THEN inst.launched_at
    ELSE 0

\* mutant: the operands of the subtraction are swapped
IsIdleSwapped(t, inst, cfg) == LastRequest(inst) - t > IdleTimeoutOf(cfg)

\* mutant: an instance idle for exactly idle_timeout is reaped as well
IsIdleInclusive(t, inst, cfg) == t - LastRequest(inst) >= IdleTimeoutOf(cfg)

\* if now - last_request > idle_timeout
IsIdle(t, inst, cfg) == t - LastRequest(inst) > IdleTimeoutOf(cfg)

\* the loop moves to the next instance, or scale_down returns terminated
SD_Advance(p, out) ==
    IF Len(loc[p].rows) > 1
    THEN Goto(p, "sd_check", [loc[p] EXCEPT !.rows = Tail(@), !.out = out])
    ELSE Finish(p, [Ret("scale_down", Missing, "return") EXCEPT !.ids = out])

\* for inst in ready_instances: model_config = state.get_model_config(inst["model"]);
\* if idle: state.update_instance(inst["instance_id"], status="draining")
SD_Check(p) ==
    /\ pc[p] = "sd_check"
    /\ LET inst == Head(loc[p].rows)
       IN  IF inst.model = Missing
           THEN /\ Finish(p, [Ret("scale_down", Missing, "KeyError") EXCEPT !.ids = loc[p].out])
                /\ UNCHANGED instances
           ELSE IF ~IsIdle(loc[p].nowL, inst, get_model_config(inst.model))
           THEN /\ SD_Advance(p, loc[p].out)
                /\ UNCHANGED instances
           ELSE IF UpdateRaises(backend, instances, inst.instance_id)
           THEN /\ Finish(p, [Ret("scale_down", Missing, "KeyError") EXCEPT !.ids = loc[p].out])
                /\ UNCHANGED instances
           ELSE /\ instances' = update_instance(instances, inst.instance_id,
                                                [status |-> "draining"])
                /\ Goto(p, "sd_terminate", loc[p])
    /\ UNCHANGED <<apiKeys, issued, backend, now, nodes, launchCalls, termCalls>>

\* mutant: the slot id is passed to compute.terminate
TerminateTargetSlot(inst) == inst.instance_id

\* inst.get("provider_instance_id", inst["instance_id"])
TerminateTarget(inst) ==
    IF inst.provider_instance_id # Missing THEN inst.provider_instance_id
    ELSE inst.instance_id

\* compute.terminate(inst.get("provider_instance_id", inst["instance_id"]))
SD_Terminate(p) ==
    /\ pc[p] = "sd_terminate"
    /\ termCalls' = terminate(termCalls, TerminateTarget(Head(loc[p].rows)))
    /\ Goto(p, "sd_mark", loc[p])
    /\ UNCHANGED <<apiKeys, issued, backend, now, instances, nodes, launchCalls>>

\* state.update_instance(inst["instance_id"], status="terminated");
\* terminated.append(inst["instance_id"])
SD_Mark(p) ==
    /\ pc[p] = "sd_mark"
    /\ LET inst == Head(loc[p].rows)
       IN  IF UpdateRaises(backend, instances, inst.instance_id)
           THEN /\ Finish(p, [Ret("scale_down", Missing, "KeyError") EXCEPT !.ids = loc[p].out])
                /\ UNCHANGED instances
           ELSE /\ instances' = update_instance(instances, inst.instance_id,
                                                [status |-> "terminated"])
                /\ SD_Advance(p, Append(loc[p].out, inst.instance_id))
    /\ UNCHANGED <<apiKeys, issued, backend, now, nodes, launchCalls, termCalls>>

ScaleDownStep(p) ==
    \/ SD_List(p)
    \/ SD_Check(p)
    \/ SD_Terminate(p)
    \/ SD_Mark(p)

(* ------------------------ router.handle_inference ---------------------- *)

\* mutant: the model argument is not checked
HI_InvokeUnchecked(p, m) ==
    /\ pc[p] = "idle"
    /\ Goto(p, "hi_list", [LocIdle EXCEPT !.model = m])
    /\ UNCHANGED <<apiKeys, issued, backend, now, instances, nodes, launchCalls, termCalls>>

\* router_handler receives POST /v1/chat/completions with body.model = m;
\* if not model: return 400
HI_Invoke(p, m) ==
    /\ pc[p] = "idle"
    /\ IF m = ""
       THEN Finish(p, [Ret("handle_inference", m, "return") EXCEPT
                         !.code = 400, !.msg = "invalid_request_error",
                         !.text = "model is required"])
       ELSE Goto(p, "hi_list", [LocIdle EXCEPT !.model = m])
    /\ UNCHANGED <<apiKeys, issued, backend, now, instances, nodes, launchCalls, termCalls>>

\* mutant: a cold model is answered 503 without a scale-up being triggered
HI_ListNoTrigger(p) ==
    /\ pc[p] = "hi_list"
    /\ LET ready_instances == list_instances(instances, loc[p].model, "ready")
       IN  IF ready_instances = <<>>
           THEN Finish(p, [Ret("handle_inference", loc[p].model, "return") EXCEPT
                             !.code = 503, !.msg = "service_unavailable",
                             !.retry_after = "10"])
           ELSE Goto(p, "hi_touch", [loc[p] EXCEPT !.rows = ready_instances])
    /\ UNCHANGED <<apiKeys, issued, backend, now, instances, nodes, launchCalls, termCalls>>

\* ready_instances = state.list_instances(model=model, status="ready");
\* if not ready_instances: trigger_scale_up(model); return 503
HI_List(p) ==
    /\ pc[p] = "hi_list"
    /\ LET ready_instances == list_instances(instances, loc[p].model, "ready")
       IN  IF ready_instances = <<>>
           THEN Finish(p, [Ret("handle_inference", loc[p].model, "return") EXCEPT
                             !.code = 503, !.msg = "service_unavailable", !.trig = 1,
                             !.text = "Model is cold-starting. Retry shortly.",
                             !.retry_after = "10"])
           ELSE Goto(p, "hi_touch", [loc[p] EXCEPT !.rows = ready_instances])
    /\ UNCHANGED <<apiKeys, issued, backend, now, instances, nodes, launchCalls, termCalls>>

\* mutant: the router marks the instance it proxies to as ready
HI_TouchMarksReady(p) ==
    /\ pc[p] = "hi_touch"
    /\ instances' = update_instance(instances, loc[p].rows[1].instance_id,
                                    [last_request_at |-> now, status |-> "ready"])
    /\ Goto(p, "hi_proxy", loc[p])
    /\ UNCHANGED <<apiKeys, issued, backend, now, nodes, launchCalls, termCalls>>

\* target = ready_instances[0];
\* state.update_instance(target["instance_id"], last_request_at=int(time.time()))
HI_Touch(p) ==
    /\ pc[p] = "hi_touch"
    /\ LET target == loc[p].rows[1]
       IN  IF UpdateRaises(backend, instances, target.instance_id)
           THEN /\ Finish(p, Ret("handle_inference", loc[p].model, "KeyError"))
                /\ UNCHANGED instances
           ELSE /\ instances' = update_instance(instances, target.instance_id,
                                                [last_request_at |-> now])
                /\ Goto(p, "hi_proxy", [loc[p] EXCEPT !.nowL = now])
    /\ UNCHANGED <<apiKeys, issued, backend, now, nodes, launchCalls, termCalls>>

\* mutant: an instance whose proxy call fails is marked terminated
HI_ProxyEvicts(p) ==
    /\ pc[p] = "hi_proxy"
    /\ instances' = update_instance(instances, loc[p].rows[1].instance_id,
                                    [status |-> "terminated"])
    /\ Finish(p, [Ret("handle_inference", loc[p].model, "return") EXCEPT
                     !.code = 502, !.msg = "bad_gateway", !.row = loc[p].rows[1]])
    /\ UNCHANGED <<apiKeys, issued, backend, now, nodes, launchCalls, termCalls>>

\* status, payload = proxy_request(target["ip"], ...): the upstream answer,
\* or 502 on requests.RequestException
HI_Proxy(p) ==
    /\ pc[p] = "hi_proxy"
    /\ \E answer \in {[code |-> 200, msg |-> "upstream"], [code |-> 502, msg |-> "bad_gateway"]} :
          Finish(p, [Ret("handle_inference", loc[p].model, "return") EXCEPT
                       !.code = answer.code, !.msg = answer.msg, !.row = loc[p].rows[1]])
    /\ UNCHANGED <<apiKeys, issued, backend, now, instances, nodes, launchCalls, termCalls>>

RouterStep(p) ==
    \/ HI_List(p)
    \/ HI_Touch(p)
    \/ HI_Proxy(p)

(* ------------------------------ cluster -------------------------------- *)

\* action.lower().strip()
ScaleActions == {"up", " UP", "down", "Down ", "restart"}

\* normalized_action = action.lower().strip(), on the actions callers send
normalized_action(a) ==
    CASE a = " UP" -> "up"
      [] a = "Down " -> "down"
      [] OTHER -> a

\* cluster_handler receives POST /api/cluster/scale {model, action};
\* if not model: raise ValueError
MS_Invoke(p, m, a) ==
    /\ pc[p] = "idle"
    /\ IF m = ""
       THEN Finish(p, Ret("manual_scale", m, "ValueError"))
       ELSE Goto(p, "ms_get_config", [LocIdle EXCEPT !.model = m, !.action = a])
    /\ UNCHANGED <<apiKeys, issued, backend, now, instances, nodes, launchCalls, termCalls>>

\* mutant: the model is not looked up in the config table
MS_GetConfigUnchecked(p) ==
    /\ pc[p] = "ms_get_config"
    /\ IF normalized_action(loc[p].action) = "up"
       THEN Finish(p, [Ret("manual_scale", loc[p].model, "return") EXCEPT
                         !.trig = 1, !.msg = "scale-up requested"])
       ELSE IF normalized_action(loc[p].action) = "down"
       THEN Goto(p, "ms_list_ready", [loc[p] EXCEPT !.action = "down"])
       ELSE Finish(p, Ret("manual_scale", loc[p].model, "ValueError"))
    /\ UNCHANGED <<apiKeys, issued, backend, now, instances, nodes, launchCalls, termCalls>>

\* model_config = state.get_model_config(model); None: raise ValueError;
\* "up": trigger_scale_up(model) and return; other than "down": raise ValueError
MS_GetConfig(p) ==
    /\ pc[p] = "ms_get_config"
    /\ IF get_model_config(loc[p].model) = NoConfig
       THEN Finish(p, Ret("manual_scale", loc[p].model, "ValueError"))
       ELSE IF normalized_action(loc[p].action) = "up"
       THEN Finish(p, [Ret("manual_scale", loc[p].model, "return") EXCEPT
                         !.trig = 1, !.msg = "scale-up requested"])
       ELSE IF normalized_action(loc[p].action) = "down"
       THEN Goto(p, "ms_list_ready", [loc[p] EXCEPT !.action = "down"])
       ELSE Finish(p, Ret("manual_scale", loc[p].model, "ValueError"))
    /\ UNCHANGED <<apiKeys, issued, backend, now, instances, nodes, launchCalls, termCalls>>

\* candidates = state.list_instances(model=model, status="ready")
MS_ListReady(p) ==
    /\ pc[p] = "ms_list_ready"
    /\ LET candidates == list_instances(instances, loc[p].model, "ready")
       IN  IF candidates # <<>>
           THEN Goto(p, "ms_mark", [loc[p] EXCEPT !.rows = candidates])
           ELSE Goto(p, "ms_list_starting", loc[p])
    /\ UNCHANGED <<apiKeys, issued, backend, now, instances, nodes, launchCalls, termCalls>>

\* if not candidates: candidates = state.list_instances(model=model, status="starting");
\* if not candidates: return "no running instances"
MS_ListStarting(p) ==
    /\ pc[p] = "ms_list_starting"
    /\ LET candidates == list_instances(instances, loc[p].model, "starting")
       IN  IF candidates # <<>>
           THEN Goto(p, "ms_mark", [loc[p] EXCEPT !.rows = candidates])
           ELSE Finish(p, [Ret("manual_scale", loc[p].model, "return") EXCEPT
                             !.msg = "no running instances"])
    /\ UNCHANGED <<apiKeys, issued, backend, now, instances, nodes, launchCalls, termCalls>>

\* target = candidates[0];
\* state.update_instance(target["instance_id"], status="terminated")
MS_Mark(p) ==
    /\ pc[p] = "ms_mark"
    /\ LET target == loc[p].rows[1]
       IN  IF UpdateRaises(backend, instances, target.instance_id)
           THEN /\ Finish(p, Ret("manual_scale", loc[p].model, "KeyError"))
                /\ UNCHANGED instances
           ELSE /\ instances' = update_instance(instances, target.instance_id,
                                                [status |-> "terminated"])
                /\ Finish(p, [Ret("manual_scale", loc[p].model, "return") EXCEPT
                                !.ids = <<target.instance_id>>])
    /\ UNCHANGED <<apiKeys, issued, backend, now, nodes, launchCalls, termCalls>>

ManualScaleStep(p) ==
    \/ MS_GetConfig(p)
    \/ MS_ListReady(p)
    \/ MS_ListStarting(p)
    \/ MS_Mark(p)

\* mutant: the tombstones are counted with the model's instances
ModelStateCountsTombstones(model, rows) ==
    LET model_instances == {r \in rows : r.model = model.name}
        ready_count == Cardinality({r \in model_instances : r.status = "ready"})
        starting_count == Cardinality({r \in model_instances : r.status \in {"starting", "draining"}})
    IN  [name |-> model.name,
         status |-> IF ready_count > 0 THEN "ready"
                    ELSE IF starting_count > 0 THEN "warming" ELSE "cold",
         ready_count |-> ready_count,
         starting_count |-> starting_count,
         instance_count |-> Cardinality(model_instances)]

\* the summary get_cluster_state builds for one model from the listing
ModelState(model, rows) ==
    LET model_instances == {r \in rows : r.model = model.name /\ r.status # "terminated"}
        ready_count == Cardinality({r \in model_instances : r.status = "ready"})
        starting_count == Cardinality({r \in model_instances : r.status \in {"starting", "draining"}})
    IN  [name |-> model.name,
         status |-> IF ready_count > 0 THEN "ready"
                    ELSE IF starting_count > 0 THEN "warming" ELSE "cold",
         ready_count |-> ready_count,
         starting_count |-> starting_count,
         instance_count |-> Cardinality(model_instances)]

\* cluster_handler receives GET /api/cluster
GC_Invoke(p) ==
    /\ pc[p] = "idle"
    /\ Goto(p, "gc_list_models", LocIdle)
    /\ UNCHANGED <<apiKeys, issued, backend, now, instances, nodes, launchCalls, termCalls>>

\* models = state.list_model_configs()
GC_ListModels(p) ==
    /\ pc[p] = "gc_list_models"
    /\ Goto(p, "gc_list_instances", loc[p])
    /\ UNCHANGED <<apiKeys, issued, backend, now, instances, nodes, launchCalls, termCalls>>

\* instances = state.list_instances(); return {"models": ..., "instances": ...}
GC_ListInstances(p) ==
    /\ pc[p] = "gc_list_instances"
    /\ LET rows == ListSet(instances, Missing, Missing)
       IN  Finish(p, [Ret("get_cluster_state", Missing, "return") EXCEPT
                        !.cluster = [m \in DOMAIN ModelsTable |-> ModelState(ModelsTable[m], rows)],
                        !.listed = SeqOf({r \in rows : r.status # "terminated"})])
    /\ UNCHANGED <<apiKeys, issued, backend, now, instances, nodes, launchCalls, termCalls>>

ClusterStateStep(p) ==
    \/ GC_ListModels(p)
    \/ GC_ListInstances(p)

(* ----------------------------- keys, auth ------------------------------ *)

KEY_PREFIX == "dio-"

\* f"{KEY_PREFIX}{secrets.token_urlsafe(KEY_SECRET_BYTES)}": the n-th random token
Token(n) == KEY_PREFIX \o "secret" \o ToString(n)

\* hashlib.sha256(token.encode("utf-8")).hexdigest()
hash_api_key(token) == "sha256(" \o token \o ")"

\* token.startswith("dio-")
StartsWithPrefix(token) == Len(token) >= Len(KEY_PREFIX) /\ SubSeq(token, 1, Len(KEY_PREFIX)) = KEY_PREFIX

Emails == {"a@x", "b@x"}

\* what callers present as a bearer token, and as a key id
TokenInputs == {Token(n) : n \in 1..issued} \cup {"", "sk-other", "dio-unknown"}
KeyIdInputs == {hash_api_key(Token(n)) : n \in 1..issued} \cup {"no-such-key"}

NoKey == [key_hash |-> Missing, email |-> Missing, name |-> Missing,
          created_at |-> MissingInt, last_used_at |-> MissingInt]

get_api_key(tbl, key_hash) == IF key_hash \in DOMAIN tbl THEN tbl[key_hash] ELSE NoKey

put_api_key(tbl, key) ==
    [h \in DOMAIN tbl \cup {key.key_hash} |-> IF h = key.key_hash THEN key ELSE tbl[h]]

delete_api_key(tbl, key_hash) == [h \in DOMAIN tbl \ {key_hash} |-> tbl[h]]

\* InMemoryStateStore.update_api_key_last_used; DynamoDBStateStore has no such
\* method and the call raises AttributeError
TouchRaises(be) == be = "aws"

update_api_key_last_used(tbl, key_hash, ts) ==
    IF key_hash \in DOMAIN tbl THEN [tbl EXCEPT ![key_hash].last_used_at = ts] ELSE tbl

\* keys_handler receives POST /api/keys; the token is generated
CK_Invoke(p, email, name) ==
    /\ pc[p] = "idle"
    /\ issued < MaxKeys
    /\ issued' = issued + 1
    /\ Goto(p, "ck_put", [LocIdle EXCEPT !.token = Token(issued + 1), !.email = email,
                                          !.name = name, !.nowL = now])
    /\ UNCHANGED <<apiKeys, backend, now, instances, nodes, launchCalls, termCalls>>

\* state.put_api_key(record); return the token and the metadata
CK_Put(p) ==
    /\ pc[p] = "ck_put"
    /\ apiKeys' = put_api_key(apiKeys,
                     [key_hash |-> hash_api_key(loc[p].token), email |-> loc[p].email,
                      name |-> loc[p].name, created_at |-> loc[p].nowL,
                      last_used_at |-> loc[p].nowL])
    /\ Finish(p, [Ret("create_key", Missing, "return") EXCEPT
                    !.token = loc[p].token, !.key_id = hash_api_key(loc[p].token),
                    !.email = loc[p].email, !.ok = TRUE])
    /\ UNCHANGED <<issued, backend, now, instances, nodes, launchCalls, termCalls>>

\* keys_handler receives GET /api/keys
LK_Invoke(p, email) ==
    /\ pc[p] = "idle"
    /\ Goto(p, "lk_list", [LocIdle EXCEPT !.email = email])
    /\ UNCHANGED <<apiKeys, issued, backend, now, instances, nodes, launchCalls, termCalls>>

\* keys = state.list_api_keys(email); metadata sorted by created_at, newest first
LK_List(p) ==
    /\ pc[p] = "lk_list"
    /\ LET keys == {apiKeys[h] : h \in {k \in DOMAIN apiKeys : apiKeys[k].email = loc[p].email}}
           meta == {[key_id |-> k.key_hash, name |-> k.name, created_at |-> k.created_at,
                     last_used_at |-> k.last_used_at] : k \in keys}
       IN  \E q \in Orderings(meta) :
              /\ \A i, j \in DOMAIN q : i < j => q[i].created_at >= q[j].created_at
              /\ Finish(p, [Ret("list_keys", Missing, "return") EXCEPT
                              !.email = loc[p].email, !.listed = q])
    /\ UNCHANGED <<apiKeys, issued, backend, now, instances, nodes, launchCalls, termCalls>>

\* keys_handler receives DELETE /api/keys/{key_id}
DK_Invoke(p, key_hash, email) ==
    /\ pc[p] = "idle"
    /\ Goto(p, "dk_get", [LocIdle EXCEPT !.key = key_hash, !.email = email])
    /\ UNCHANGED <<apiKeys, issued, backend, now, instances, nodes, launchCalls, termCalls>>

\* mutant: the owner of the key is not compared with the requester
DK_GetAnyRequester(p) ==
    /\ pc[p] = "dk_get"
    /\ LET existing == get_api_key(apiKeys, loc[p].key)
       IN  IF existing = NoKey
           THEN Finish(p, [Ret("delete_key", Missing, "return") EXCEPT
                             !.key_id = loc[p].key, !.email = loc[p].email, !.ok = FALSE])
           ELSE Goto(p, "dk_delete", loc[p])
    /\ UNCHANGED <<apiKeys, issued, backend, now, instances, nodes, launchCalls, termCalls>>

\* existing = state.get_api_key(key_hash);
\* if existing is None or existing.get("email") != email: return False
DK_Get(p) ==
    /\ pc[p] = "dk_get"
    /\ LET existing == get_api_key(apiKeys, loc[p].key)
       IN  IF existing = NoKey \/ existing.email # loc[p].email
           THEN Finish(p, [Ret("delete_key", Missing, "return") EXCEPT
                             !.key_id = loc[p].key, !.email = loc[p].email, !.ok = FALSE])
           ELSE Goto(p, "dk_delete", loc[p])
    /\ UNCHANGED <<apiKeys, issued, backend, now, instances, nodes, launchCalls, termCalls>>

\* state.delete_api_key(key_hash); return True
DK_Delete(p) ==
    /\ pc[p] = "dk_delete"
    /\ apiKeys' = delete_api_key(apiKeys, loc[p].key)
    /\ Finish(p, [Ret("delete_key", Missing, "return") EXCEPT
                    !.key_id = loc[p].key, !.email = loc[p].email, !.ok = TRUE])
    /\ UNCHANGED <<issued, backend, now, instances, nodes, launchCalls, termCalls>>

\* mutant: every non-empty token is looked up, whatever its prefix
VK_InvokeAnyPrefix(p, token) ==
    /\ pc[p] = "idle"
    /\ IF token = ""
       THEN Finish(p, [Ret("validate_api_key", Missing, "return") EXCEPT
                         !.token = token, !.ok = FALSE])
       ELSE Goto(p, "vk_get", [LocIdle EXCEPT !.token = token, !.key = hash_api_key(token)])
    /\ UNCHANGED <<apiKeys, issued, backend, now, instances, nodes, launchCalls, termCalls>>

\* authorizer_handler receives a bearer token;
\* if not token or not token.startswith("dio-"): return False, None
VK_Invoke(p, token) ==
    /\ pc[p] = "idle"
    /\ IF token = "" \/ ~StartsWithPrefix(token)
       THEN Finish(p, [Ret("validate_api_key", Missing, "return") EXCEPT
                         !.token = token, !.ok = FALSE])
       ELSE Goto(p, "vk_get", [LocIdle EXCEPT !.token = token, !.key = hash_api_key(token)])
    /\ UNCHANGED <<apiKeys, issued, backend, now, instances, nodes, launchCalls, termCalls>>

\* record = state.get_api_key(key_hash); if record is None: return False, None
VK_Get(p) ==
    /\ pc[p] = "vk_get"
    /\ LET record == get_api_key(apiKeys, loc[p].key)
       IN  IF record = NoKey
           THEN Finish(p, [Ret("validate_api_key", Missing, "return") EXCEPT
                             !.token = loc[p].token, !.ok = FALSE])
           ELSE Goto(p, "vk_touch", [loc[p] EXCEPT !.email = record.email])
    /\ UNCHANGED <<apiKeys, issued, backend, now, instances, nodes, launchCalls, termCalls>>

\* state.update_api_key_last_used(key_hash, int(time.time()));
\* return True, record.get("email")
VK_Touch(p) ==
    /\ pc[p] = "vk_touch"
    /\ IF TouchRaises(backend)
       THEN /\ UNCHANGED apiKeys
            /\ Finish(p, [Ret("validate_api_key", Missing, "AttributeError") EXCEPT
                            !.token = loc[p].token])
       ELSE /\ apiKeys' = update_api_key_last_used(apiKeys, loc[p].key, now)
            /\ Finish(p, [Ret("validate_api_key", Missing, "return") EXCEPT
                            !.token = loc[p].token, !.email = loc[p].email, !.ok = TRUE])
    /\ UNCHANGED <<issued, backend, now, instances, nodes, launchCalls, termCalls>>

KeysStep(p) ==
    \/ CK_Put(p)
    \/ LK_List(p)
    \/ DK_Get(p)
    \/ DK_Delete(p)
    \/ VK_Get(p)
    \/ VK_Touch(p)

\* a handler is invoked on a free process
Invoke(p) ==
    \/ \E m \in ModelNames : SU_Invoke(p, m)
    \/ SD_Invoke(p)
    \/ \E m \in ModelNames \cup {""} : HI_Invoke(p, m)
    \/ \E m \in ModelNames \cup {""} : \E a \in ScaleActions : MS_Invoke(p, m, a)

\* a running handler makes its next call
Step(p) ==
    \/ ScaleUpStep(p)
    \/ ScaleDownStep(p)
    \/ RouterStep(p)
    \/ ManualScaleStep(p)

\* concurrent handler processes over one store
Next ==
    \/ Tick
    \/ \E p \in Procs : Release(p)
    \/ \E p \in Procs : Invoke(p)
    \/ \E p \in Procs : Step(p)

Spec == Init /\ [][Next]_vars

\* the calls of a handler that runs alone: put_instance_if_absent cannot
\* return False then, so the two listings that follow a lost claim are left out
StepSeq(p) ==
    \/ SU_ListStarting(p)
    \/ SU_ListReady(p)
    \/ SU_ListTerminated(p)
    \/ SU_Delete(p)
    \/ SU_GetConfig(p)
    \/ SU_Claim(p)
    \/ SU_Launch(p)
    \/ SU_LaunchFailed(p)
    \/ SU_WriteLaunch(p)
    \/ SU_MarkReady(p)
    \/ SU_Terminate(p)
    \/ SU_MarkTerminated(p)
    \/ ScaleDownStep(p)
    \/ RouterStep(p)
    \/ ManualScaleStep(p)

\* one handler at a time: a handler is invoked only when no other is running
NextSeq ==
    \/ Tick
    \/ \E p \in Procs : Release(p)
    \/ \E p \in Procs : (\A q \in Procs : pc[q] = "idle") /\ Invoke(p)
    \/ \E p \in Procs : StepSeq(p)

SpecSeq == Init /\ [][NextSeq]_vars

\* every process has called scale_up("m") against a fresh store
InitScaleUp ==
    /\ backend \in Backends
    /\ now = 0
    /\ instances = << >>
    /\ nodes = << >>
    /\ launchCalls = [m \in ModelNames |-> 0]
    /\ termCalls = << >>
    /\ pc = [p \in Procs |-> "su_list_starting"]
    /\ loc = [p \in Procs |-> [LocIdle EXCEPT !.model = "m"]]
    /\ ret = [p \in Procs |-> NoRet]
    /\ apiKeys = << >>
    /\ issued = 0

NextScaleUp ==
    \/ Tick
    \/ \E p \in Procs : ScaleUpStep(p)

SpecScaleUp == InitScaleUp /\ [][NextScaleUp]_vars

\* the same calls in processes that do not die: a call that can be made is
\* made in the end, since launch polls for an address a bounded number of
\* times, poll_health has a deadline, and each store call returns
SpecScaleUpFair ==
    InitScaleUp /\ [][NextScaleUp]_vars /\ \A p \in Procs : WF_vars(ScaleUpStep(p))

\* the instances table at each stage of a slot's life, built with the calls
\* scale_up and scale_down make on it
TableClaimed == put_instance_if_absent(<< >>, Placeholder(1, "m", 0))
TableLaunched ==
    update_instance(TableClaimed, SlotId("m"),
                    [provider_instance_id |-> NodeId(1), ip |-> "127.0.0.1"])
TableReady == update_instance(TableLaunched, SlotId("m"), [status |-> "ready", last_request_at |-> 0])
TableDraining == update_instance(TableReady, SlotId("m"), [status |-> "draining"])
TableTerminated == update_instance(TableDraining, SlotId("m"), [status |-> "terminated"])

\* the router, the cluster API and the keys and auth components run against
\* a store the orchestrator has left in one of these states
InitFrame ==
    /\ backend \in Backends
    /\ now = 0
    /\ \E s \in {"absent", "starting", "launched", "ready", "draining", "terminated"} :
          /\ instances = CASE s = "absent" -> << >>
                           [] s = "starting" -> TableClaimed
                           [] s = "launched" -> TableLaunched
                           [] s = "ready" -> TableReady
                           [] s = "draining" -> TableDraining
                           [] s = "terminated" -> TableTerminated
          /\ nodes = IF s \in {"absent", "starting"} THEN << >> ELSE <<"m">>
          /\ launchCalls = [m \in ModelNames |->
                              IF m = "m" /\ s \notin {"absent", "starting"} THEN 1 ELSE 0]
          /\ termCalls = IF s \in {"draining", "terminated"}
                         THEN terminate(<< >>, NodeId(1)) ELSE << >>
    /\ pc = [p \in Procs |-> "idle"]
    /\ loc = [p \in Procs |-> LocIdle]
    /\ ret = [p \in Procs |-> NoRet]
    /\ apiKeys = << >>
    /\ issued = 0

InvokeFrame(p) ==
    \/ \E m \in ModelNames \cup {""} : HI_Invoke(p, m)
    \/ \E m \in ModelNames \cup {""} : \E a \in ScaleActions : MS_Invoke(p, m, a)
    \/ GC_Invoke(p)
    \/ \E email \in Emails : CK_Invoke(p, email, "laptop")
    \/ \E email \in Emails : LK_Invoke(p, email)
    \/ \E k \in KeyIdInputs : \E email \in Emails : DK_Invoke(p, k, email)
    \/ \E t \in TokenInputs : VK_Invoke(p, t)

StepFrame(p) ==
    \/ RouterStep(p)
    \/ ManualScaleStep(p)
    \/ ClusterStateStep(p)
    \/ KeysStep(p)

NextFrame ==
    \/ Tick
    \/ \E p \in Procs : Release(p)
    \/ \E p \in Procs : InvokeFrame(p)
    \/ \E p \in Procs : StepFrame(p)

SpecFrame == InitFrame /\ [][NextFrame]_vars

\* the calls scale_up makes between its claim and the write that takes the
\* slot to ready or terminated
OwnerPcs == {"su_launch", "su_launch_failed", "su_write_launch", "su_health", "su_mark_terminated"}

\* the process running scale_up dies between two of those calls: none of the
\* calls that were left is made, and the process takes no further step
Crash(p) ==
    /\ pc[p] \in OwnerPcs
    /\ pc' = [pc EXCEPT ![p] = "crashed"]
    /\ loc' = [loc EXCEPT ![p] = [LocIdle EXCEPT !.model = loc[p].model]]
    /\ UNCHANGED <<apiKeys, issued, backend, now, instances, nodes, launchCalls, termCalls, ret>>

InvokeCrash(p) ==
    \/ \E m \in ModelNames : SU_Invoke(p, m)
    \/ SD_Invoke(p)
    \/ \E m \in ModelNames \cup {""} : HI_Invoke(p, m)

StepCrash(p) ==
    \/ ScaleUpStep(p)
    \/ ScaleDownStep(p)
    \/ RouterStep(p)

\* scale_up, scale_down and handle_inference over one store, where a process
\* running scale_up may die after its claim
NextCrash ==
    \/ Tick
    \/ \E p \in Procs : Release(p)
    \/ \E p \in Procs : InvokeCrash(p)
    \/ \E p \in Procs : StepCrash(p)
    \/ \E p \in Procs : Crash(p)

SpecCrash == Init /\ [][NextCrash]_vars

\* the orchestrator alone: concurrent scale_up and scale_down invocations
NextOrch ==
    \/ Tick
    \/ \E p \in Procs : Release(p)
    \/ \E p \in Procs : \E m \in ModelNames : SU_Invoke(p, m)
    \/ \E p \in Procs : SD_Invoke(p)
    \/ \E p \in Procs : ScaleUpStep(p)
    \/ \E p \in Procs : ScaleDownStep(p)

SpecOrch == Init /\ [][NextOrch]_vars

\* the instances table after the slot of "u" went through a whole life
\* (claimed, launched, ready, drained, terminated) while "u" was configured
TableRetired ==
    LET claimed == put_instance_if_absent(<< >>, Placeholder(1, "u", 0))
        launched == update_instance(claimed, SlotId("u"),
                                    [provider_instance_id |-> NodeId(1), ip |-> "127.0.0.1"])
        ready == update_instance(launched, SlotId("u"), [status |-> "ready", last_request_at |-> 0])
        draining == update_instance(ready, SlotId("u"), [status |-> "draining"])
    IN  update_instance(draining, SlotId("u"), [status |-> "terminated"])

\* the orchestrator starts on a store that may still hold the tombstone of
\* "u", a model whose ModelConfig has since been taken out of the models table
InitRetired ==
    /\ backend \in Backends
    /\ now = 0
    /\ \E tomb \in BOOLEAN :
          /\ instances = IF tomb THEN TableRetired ELSE << >>
          /\ nodes = IF tomb THEN <<"u">> ELSE << >>
          /\ launchCalls = [m \in ModelNames |-> IF tomb /\ m = "u" THEN 1 ELSE 0]
          /\ termCalls = IF tomb THEN terminate(<< >>, NodeId(1)) ELSE << >>
    /\ pc = [p \in Procs |-> "idle"]
    /\ loc = [p \in Procs |-> LocIdle]
    /\ ret = [p \in Procs |-> NoRet]
    /\ apiKeys = << >>
    /\ issued = 0

SpecRetired == InitRetired /\ [][NextOrch]_vars

\* one scale_down call at a time against a store the orchestrator has left
\* with the slot absent, starting, launched, ready, draining or terminated
NextSweep ==
    \/ Tick
    \/ \E p \in Procs : Release(p)
    \/ \E p \in Procs : (\A q \in Procs : pc[q] = "idle") /\ SD_Invoke(p)
    \/ \E p \in Procs : ScaleDownStep(p)

SpecSweep == InitFrame /\ [][NextSweep]_vars

\* the keys API and the authorizer over one store
InvokeKeys(p) ==
    \/ \E email \in Emails : CK_Invoke(p, email, "laptop")
    \/ \E email \in Emails : LK_Invoke(p, email)
    \/ \E k \in KeyIdInputs : \E email \in Emails : DK_Invoke(p, k, email)
    \/ \E t \in TokenInputs : VK_Invoke(p, t)

NextKeys ==
    \/ Tick
    \/ \E p \in Procs : Release(p)
    \/ \E p \in Procs : InvokeKeys(p)
    \/ \E p \in Procs : KeysStep(p)

SpecKeys == Init /\ [][NextKeys]_vars

\* a ready instance that receives no request, and scale_down run again and
\* again by its schedule while the clock advances
InitReap ==
    /\ backend \in Backends
    /\ now = 0
    /\ instances = TableReady
    /\ nodes = <<"m">>
    /\ launchCalls = [m \in ModelNames |-> IF m = "m" THEN 1 ELSE 0]
    /\ termCalls = << >>
    /\ pc = [p \in Procs |-> "idle"]
    /\ loc = [p \in Procs |-> LocIdle]
    /\ ret = [p \in Procs |-> NoRet]
    /\ apiKeys = << >>
    /\ issued = 0

NextReap ==
    \/ Tick
    \/ \E p \in Procs : Release(p)
    \/ \E p \in Procs : SD_Invoke(p)
    \/ \E p \in Procs : ScaleDownStep(p)

\* the clock advances, the schedule invokes scale_down whenever a process is
\* free for it, and a running scale_down makes its next call and returns
SpecReap ==
    /\ InitReap
    /\ [][NextReap]_vars
    /\ WF_vars(Tick)
    /\ WF_vars(\E p \in Procs : SD_Invoke(p))
    /\ \A p \in Procs : WF_vars(ScaleDownStep(p)) /\ WF_vars(Release(p))

(* ------------------------------ claims --------------------------------- *)

\* the items of model m whose status is in S
RowsIn(m, S) == {i \in DOMAIN instances : instances[i].model = m /\ instances[i].status \in S}

\* the nodes launch returned for model m that were never passed to terminate
LiveNodes(m) == {n \in 1..Len(nodes) : nodes[n] = m /\ TermCount(NodeId(n)) = 0}

\* C1: in every reachable state each model has at most one instance row
\* whose status is starting or ready
C1_AtMostOneLiveRow ==
    \A m \in ModelNames : Cardinality(RowsIn(m, {"starting", "ready"})) <= 1

\* C1 witness: a second scale_up lost the claim against a live slot
C1_Witness ==
    \E p \in Procs :
        /\ pc[p] = "su_lost_list_starting"
        /\ RowsIn(loc[p].model, {"starting", "ready"}) # {}

\* C2 as stated: for each model at most one node exists that launch returned
\* and terminate was never called for
C2_AtMostOneLiveNode ==
    \A m \in ModelNames : Cardinality(LiveNodes(m)) <= 1

(* claims about N concurrent scale_up("m") calls on a fresh store (SpecScaleUp) *)

AllDone == \A p \in Procs : pc[p] = "done"

\* no call's launch raised and no call's health gate failed
NoCallFailed == \A p \in Procs : ret[p].outcome = "return" /\ ret[p].row.status # "terminated"

\* the call of p saw put_instance_if_absent return True / False
ObservedTrue(p) ==
    \/ pc[p] \in {"su_launch", "su_launch_failed", "su_write_launch", "su_health",
                  "su_mark_terminated"}
    \/ pc[p] = "done" /\ ret[p].claimed = "true"

ObservedFalse(p) ==
    \/ pc[p] \in {"su_lost_list_starting", "su_lost_list_ready"}
    \/ pc[p] = "done" /\ ret[p].claimed = "false"

ReturnedRowOf(q, w) ==
    /\ ret[q].outcome = "return"
    /\ ret[q].row.instance_id = SlotId("m")
    /\ ret[q].row.model = "m"
    /\ ret[q].row.status \in {"starting", "ready"}
    /\ ret[q].row.launched_at = ret[w].row.launched_at

Stepped(p) == pc'[p] # pc[p] \/ loc'[p] # loc[p]

Range(q) == {q[i] : i \in DOMAIN q}

\* C5: a scale_up whose claim returned False makes no launch or terminate
\* call and no write or delete on the store, and returns the starting/ready
\* row it finds, or its own placeholder when it finds none
C5_LoserHasNoSideEffects ==
    [][\A p \in Procs :
        (pc[p] \in {"su_lost_list_starting", "su_lost_list_ready"} /\ Stepped(p)) =>
            /\ UNCHANGED <<instances, nodes, launchCalls, termCalls>>
            /\ pc'[p] \in {"su_lost_list_ready", "done"}
            /\ pc'[p] = "done" =>
                LET found == Range(loc[p].rows) \cup ListSet(instances, loc[p].model, "ready")
                IN  /\ ret'[p].outcome = "return"
                    /\ IF found = {} THEN ret'[p].row = loc[p].ph
                       ELSE ret'[p].row \in found /\ ret'[p].row.status \in {"starting", "ready"}
      ]_vars

\* C5 witness: a caller that lost the claim has returned
C5_Witness ==
    \E p \in Procs : pc[p] = "done" /\ ret[p].op = "scale_up" /\ ret[p].claimed = "false"

\* C6: a scale_up that reads the listing while a row of its model is
\* starting or ready returns that row, makes no launch call and leaves the
\* store unchanged
C6_IdempotentOnLiveRow ==
    [][\A p \in Procs :
        /\ (pc[p] = "su_list_starting" /\ Stepped(p)
                /\ ListSet(instances, loc[p].model, "starting") # {}) =>
              /\ loc'[p].rows # <<>>
              /\ Range(loc'[p].rows) \subseteq ListSet(instances, loc[p].model, "starting")
              /\ UNCHANGED <<instances, nodes, launchCalls, termCalls>>
        /\ (pc[p] = "su_list_ready" /\ Stepped(p)
                /\ (loc[p].rows # <<>> \/ ListSet(instances, loc[p].model, "ready") # {})) =>
              /\ pc'[p] = "done"
              /\ ret'[p].outcome = "return"
              /\ ret'[p].row \in Range(loc[p].rows) \cup ListSet(instances, loc[p].model, "ready")
              /\ ret'[p].row.status \in {"starting", "ready"}
              /\ UNCHANGED <<instances, nodes, launchCalls, termCalls>>
      ]_vars

\* C6 witness: scale_up returned at the fast path the row of a warming slot
C6_Witness ==
    \E p \in Procs :
        /\ pc[p] = "done"
        /\ ret[p].op = "scale_up"
        /\ ret[p].claimed = Missing
        /\ ret[p].outcome = "return"
        /\ ret[p].row.status = "starting"
        /\ launchCalls["m"] = 1

\* the status of the slot with this id ("absent" when the table has no such item)
StatusOf(tbl, id) == IF id \in DOMAIN tbl THEN tbl[id].status ELSE "absent"

\* C7 as stated: whenever scale_up calls delete_instance during the tombstone
\* cleanup, the row with that id is terminated or absent
C7_DeletesOnlyTombstones ==
    [][\A p \in Procs :
        (pc[p] = "su_delete" /\ Stepped(p) /\ instances' # instances) =>
            StatusOf(instances, Head(loc[p].rows).instance_id) \in {"terminated", "absent"}
      ]_vars

\* C8 as stated: a scale_up that finds the slot terminated removes the
\* tombstone, then wins the claim and goes on to compute.launch
C8_RelaunchAfterTombstone ==
    [][\A p \in Procs :
        /\ (pc[p] = "su_delete" /\ Stepped(p)) =>
              /\ Head(loc[p].rows).instance_id \notin DOMAIN instances'
              /\ pc'[p] \in {"su_delete", "su_get_config"}
        /\ (pc[p] = "su_claim" /\ Stepped(p)) => pc'[p] = "su_launch"
      ]_vars

\* the transitions of the instance state machine
Transitions ==
    {<<"absent", "starting">>, <<"starting", "ready">>, <<"starting", "terminated">>,
     <<"ready", "draining">>, <<"draining", "terminated">>, <<"terminated", "absent">>}

\* C9 as stated: every change of a slot's status follows the state machine
C9_StatusFollowsStateMachine ==
    [][\A id \in DOMAIN instances \cup DOMAIN instances' :
        \/ StatusOf(instances', id) = StatusOf(instances, id)
        \/ <<StatusOf(instances, id), StatusOf(instances', id)>> \in Transitions
      ]_vars

(* claims about the components other than the orchestrator (SpecFrame) *)

\* the status attribute of the item with this id (Missing when there is none)
StatusField(tbl, id) == IF id \in DOMAIN tbl THEN tbl[id].status ELSE Missing

StatusUnchanged ==
    \A id \in DOMAIN instances \cup DOMAIN instances' :
        StatusField(instances', id) = StatusField(instances, id)

\* the calls of handle_inference, manual_scale, get_cluster_state, the keys
\* API and validate_api_key
RouterPcs == {"hi_list", "hi_touch", "hi_proxy"}
ClusterPcs == {"ms_get_config", "ms_list_ready", "ms_list_starting", "ms_mark",
               "gc_list_models", "gc_list_instances"}
KeysPcs == {"ck_put", "lk_list", "dk_get", "dk_delete", "vk_get", "vk_touch"}

HoldsLaunchedNode(p) ==
    \E n \in 1..Len(nodes) : nodes[n] = loc[p].model /\ NodeId(n) = loc[p].prov

\* C11: when the health gate of a scale_up that won the claim and launched a
\* node fails, the call passes the provider id launch returned to
\* compute.terminate, the slot row stays in the store with status terminated,
\* and the record returned has status terminated
C11_HealthFailureTerminates ==
    [][\A p \in Procs :
        /\ (pc[p] = "su_health" /\ Stepped(p) /\ pc'[p] # "done") =>
              /\ HoldsLaunchedNode(p)
              /\ termCalls' = terminate(termCalls, loc[p].prov)
              /\ UNCHANGED <<instances, nodes, launchCalls>>
        /\ (pc[p] = "su_mark_terminated" /\ Stepped(p)) =>
              /\ pc'[p] = "done"
              /\ ret'[p].outcome = "return"
              /\ ret'[p].row.instance_id = SlotId(loc[p].model)
              /\ ret'[p].row.provider_instance_id = loc[p].prov
              /\ ret'[p].row.status = "terminated"
              /\ StatusOf(instances', SlotId(loc[p].model)) = "terminated"
              /\ UNCHANGED <<termCalls, nodes, launchCalls>>
      ]_vars

\* C11 witness: a scale_up that launched a node returned it as terminated
\* after one terminate call for it
C11_Witness ==
    \E p \in Procs :
        /\ pc[p] = "done"
        /\ ret[p].op = "scale_up"
        /\ ret[p].claimed = "true"
        /\ ret[p].outcome = "return"
        /\ ret[p].row.status = "terminated"
        /\ TermCount(ret[p].row.provider_instance_id) = 1
        /\ StatusOf(instances, ret[p].row.instance_id) = "terminated"

\* C12 as stated: when compute.launch raises after a successful claim, the
\* raising call has left no node behind, and scale_up marks the slot
\* terminated and re-raises, so that no row of the model is starting
C12_LaunchFailureLeavesNoOrphan ==
    [][\A p \in Procs :
        /\ (pc[p] = "su_launch" /\ Stepped(p) /\ pc'[p] = "su_launch_failed") =>
              nodes' = nodes
        /\ (pc[p] = "su_launch_failed" /\ Stepped(p)) =>
              /\ pc'[p] = "done"
              /\ ret'[p].outcome = "LaunchError"
              /\ StatusOf(instances', SlotId(loc[p].model)) = "terminated"
              /\ \A id \in DOMAIN instances' :
                    instances'[id].model = loc[p].model => instances'[id].status # "starting"
      ]_vars

\* the calls scale_up makes after it has found a ModelConfig
ClaimedPcs ==
    {"su_claim", "su_lost_list_starting", "su_lost_list_ready", "su_launch",
     "su_launch_failed", "su_write_launch", "su_health", "su_mark_terminated"}

\* C13: scale_up for a model that has no ModelConfig never reaches
\* put_instance_if_absent or compute.launch and raises ValueError; no
\* instance row exists for that model
C13_UnknownModelRaises ==
    \A m \in ModelNames \ Configured :
        /\ launchCalls[m] = 0
        /\ SlotId(m) \notin DOMAIN instances
        /\ \A id \in DOMAIN instances : instances[id].model # m
        /\ \A p \in Procs :
              /\ loc[p].model = m => pc[p] \notin ClaimedPcs
              /\ (pc[p] = "done" /\ ret[p].op = "scale_up" /\ ret[p].model = m) =>
                    /\ ret[p].outcome = "ValueError"
                    /\ ret[p].claimed = Missing
                    /\ ret[p].row = NoRow

\* C13 witness: scale_up("u") has raised ValueError while the configured
\* model has a slot
C13_Witness ==
    \E p \in Procs :
        /\ pc[p] = "done"
        /\ ret[p].op = "scale_up"
        /\ ret[p].model = "u"
        /\ ret[p].outcome = "ValueError"
        /\ SlotId("m") \in DOMAIN instances

(* claims about one scale_down call that runs alone (SpecSeq) *)

\* the calls of scale_down
ScaleDownPcs == {"sd_list", "sd_check", "sd_terminate", "sd_mark"}

\* the idle_timeout of the model of this row
TimeoutOfRow(row) == IdleTimeoutOf(get_model_config(row.model))

\* C14: scale_down considers every ready instance; one with
\* now - last_request_at > idle_timeout is passed to compute.terminate under
\* its provider_instance_id, for the first and only time, then marked
\* terminated and appended to the list returned; when scale_down returns, no
\* ready instance is left that was idle for longer than its timeout
C14_IdleInstancesReaped ==
    [][\A p \in Procs :
        /\ (pc[p] = "sd_list" /\ Stepped(p)) =>
              Range(loc'[p].rows) = ListSet(instances, Missing, "ready")
        /\ (pc[p] = "sd_check" /\ Stepped(p)
                /\ loc[p].nowL - Head(loc[p].rows).last_request_at
                      > TimeoutOfRow(Head(loc[p].rows))) =>
              pc'[p] = "sd_terminate"
        /\ (pc[p] = "sd_terminate" /\ Stepped(p)) =>
              LET inst == Head(loc[p].rows)
              IN  /\ inst.provider_instance_id # Missing
                  /\ TermCount(inst.provider_instance_id) = 0
                  /\ termCalls' = terminate(termCalls, inst.provider_instance_id)
        /\ (pc[p] = "sd_mark" /\ Stepped(p)) =>
              LET id == Head(loc[p].rows).instance_id
              IN  /\ StatusOf(instances', id) = "terminated"
                  /\ IF pc'[p] = "done" THEN ret'[p].ids = Append(loc[p].out, id)
                                         ELSE loc'[p].out = Append(loc[p].out, id)
        /\ (pc[p] \in ScaleDownPcs /\ pc'[p] = "done") =>
              /\ ret'[p].outcome = "return"
              /\ \A id \in DOMAIN instances' :
                    /\ instances'[id].status # "draining"
                    /\ instances'[id].status = "ready" =>
                          loc[p].nowL - instances'[id].last_request_at
                              <= TimeoutOfRow(instances'[id])
              /\ \A i \in DOMAIN ret'[p].ids :
                    /\ StatusOf(instances', ret'[p].ids[i]) = "terminated"
                    /\ TermCount(instances'[ret'[p].ids[i]].provider_instance_id) = 1
      ]_vars

\* C14 witness: scale_down has returned the slot of a node it terminated
C14_Witness ==
    \E p \in Procs :
        /\ pc[p] = "done"
        /\ ret[p].op = "scale_down"
        /\ ret[p].ids = <<SlotId("m")>>
        /\ StatusOf(instances, SlotId("m")) = "terminated"
        /\ TermCount(instances[SlotId("m")].provider_instance_id) = 1
        /\ now - instances[SlotId("m")].last_request_at > IdleTimeout

\* C15: no call of scale_down changes the row of a ready instance with
\* now - last_request_at <= idle_timeout, passes its node to
\* compute.terminate, or puts its id in the list returned
C15_FreshInstancesUntouched ==
    [][\A p \in Procs :
        (pc[p] \in ScaleDownPcs /\ Stepped(p)) =>
            \A id \in DOMAIN instances :
                (/\ instances[id].status = "ready"
                 /\ loc[p].nowL - instances[id].last_request_at
                        <= TimeoutOfRow(instances[id])) =>
                    /\ id \in DOMAIN instances'
                    /\ instances'[id] = instances[id]
                    /\ \A t \in {id, instances[id].provider_instance_id} :
                          t \in DOMAIN termCalls' =>
                             t \in DOMAIN termCalls /\ termCalls'[t] = termCalls[t]
                    /\ id \notin Range(loc'[p].out) \cup Range(ret'[p].ids)
      ]_vars

\* C15 witness: scale_down has returned an empty list and left ready an
\* instance that has been idle for exactly idle_timeout
C15_Witness ==
    \E p \in Procs :
        /\ pc[p] = "done"
        /\ ret[p].op = "scale_down"
        /\ ret[p].outcome = "return"
        /\ ret[p].ids = <<>>
        /\ StatusOf(instances, SlotId("m")) = "ready"
        /\ now - instances[SlotId("m")].last_request_at = IdleTimeout

(* claims about the router and the orchestrator running concurrently (Spec) *)

\* C16: scale_down enters compute.terminate only from the step that wrote
\* draining to the slot, and writes terminated only in the step that follows
\* the terminate call; a handle_inference that lists the ready instances of
\* a model whose slot is draining gets no draining row, and answers 503
\* without proxying
C16_DrainingBeforeTerminate ==
    [][\A p \in Procs :
        /\ (Stepped(p) /\ pc'[p] = "sd_terminate") =>
              /\ pc[p] = "sd_check"
              /\ StatusOf(instances', Head(loc'[p].rows).instance_id) = "draining"
              /\ termCalls' = termCalls
        /\ (pc[p] = "sd_terminate" /\ Stepped(p)) =>
              /\ termCalls' = terminate(termCalls, TerminateTarget(Head(loc[p].rows)))
              /\ instances' = instances
              /\ pc'[p] = "sd_mark"
        /\ (pc[p] \in ScaleDownPcs /\ Stepped(p) /\ pc[p] # "sd_mark") =>
              \A id \in DOMAIN instances' :
                  instances'[id].status = "terminated" => StatusOf(instances, id) = "terminated"
        /\ (pc[p] = "hi_list" /\ Stepped(p)) =>
              /\ \A i \in DOMAIN loc'[p].rows :
                    StatusOf(instances, loc'[p].rows[i].instance_id) # "draining"
              /\ StatusOf(instances, SlotId(loc[p].model)) = "draining" =>
                    /\ pc'[p] = "done"
                    /\ ret'[p].code = 503
                    /\ ret'[p].row = NoRow
      ]_vars

\* C16 witness: the router has answered 503 for a model whose slot a running
\* scale_down has written draining
C16_Witness ==
    \E p, q \in Procs :
        /\ pc[p] \in {"sd_terminate", "sd_mark"}
        /\ StatusOf(instances, Head(loc[p].rows).instance_id) = "draining"
        /\ pc[q] = "done"
        /\ ret[q].op = "handle_inference"
        /\ ret[q].model = Head(loc[p].rows).model
        /\ ret[q].code = 503

\* C17 as stated: while a handle_inference call is between its write of
\* last_request_at and the end of its proxy call, a scale_down that lists the
\* ready instances gets the target with a timestamp no older than that write
\* and does not find it idle
C17_InFlightNotReaped ==
    [][\A p, q \in Procs :
        (pc[p] = "hi_proxy" /\ pc[q] = "sd_list" /\ Stepped(q)) =>
            \A i \in DOMAIN loc'[q].rows :
                loc'[q].rows[i].instance_id = loc[p].rows[1].instance_id =>
                    /\ loc'[q].rows[i].last_request_at >= loc[p].nowL
                    /\ loc[q].nowL - loc'[q].rows[i].last_request_at
                          <= TimeoutOfRow(loc'[q].rows[i])
      ]_vars

(* claims about the answers of handle_inference *)

\* C18: a handle_inference for a non-empty model that lists no ready
\* instance leaves the store alone and returns 503 with Retry-After: 10 and
\* one trigger_scale_up call, without a proxy call
C18_ColdModelTriggersScaleUp ==
    [][\A p \in Procs :
        (pc[p] = "hi_list" /\ Stepped(p)
            /\ \A id \in DOMAIN instances :
                  ~(instances[id].model = loc[p].model /\ instances[id].status = "ready")) =>
            /\ loc[p].model # ""
            /\ pc'[p] = "done"
            /\ ret'[p].outcome = "return"
            /\ ret'[p].code = 503
            /\ ret'[p].retry_after = "10"
            /\ ret'[p].msg = "service_unavailable"
            /\ ret'[p].trig = 1
            /\ ret'[p].row = NoRow
            /\ UNCHANGED <<instances, nodes, launchCalls, termCalls>>
      ]_vars

\* C18 witness: the router has answered 503 with one trigger for a model
\* whose slot is not ready
C18_Witness ==
    \E p \in Procs : \E st \in {"starting", "draining", "terminated"} :
        /\ pc[p] = "done"
        /\ ret[p].op = "handle_inference"
        /\ ret[p].model = "m"
        /\ ret[p].code = 503
        /\ ret[p].trig = 1
        /\ StatusOf(instances, SlotId("m")) = st

\* C19: handle_inference writes last_request_at = now and nothing else to
\* its target before the proxy call; the proxy call changes no row, so when
\* it fails the answer is 502 bad_gateway and the target is still ready
\* with last_request_at at the request time
C19_ProxyFailureKeepsInstance ==
    [][\A p \in Procs :
        /\ (pc[p] = "hi_touch" /\ Stepped(p)) =>
              LET id == loc[p].rows[1].instance_id
              IN  /\ pc'[p] = "hi_proxy"
                  /\ instances' = [instances EXCEPT ![id].last_request_at = now]
                  /\ instances'[id].status = "ready"
        /\ (pc[p] = "hi_proxy" /\ Stepped(p)) =>
              LET id == loc[p].rows[1].instance_id
              IN  /\ instances' = instances
                  /\ instances[id].status = "ready"
                  /\ instances[id].last_request_at = loc[p].nowL
                  /\ pc'[p] = "done"
                  /\ ret'[p].code # 200 =>
                        /\ ret'[p].code = 502
                        /\ ret'[p].msg = "bad_gateway"
                        /\ ret'[p].trig = 0
      ]_vars

\* C19 witness: the router has answered 502 and its target is ready with a
\* last_request_at later than its launch
C19_Witness ==
    \E p \in Procs :
        /\ pc[p] = "done"
        /\ ret[p].op = "handle_inference"
        /\ ret[p].code = 502
        /\ StatusOf(instances, ret[p].row.instance_id) = "ready"
        /\ instances[ret[p].row.instance_id].last_request_at > ret[p].row.last_request_at

\* C20: a handle_inference with an empty model returns 400
\* invalid_request_error "model is required" in its first step, which
\* changes nothing; no call of handle_inference on the store, the trigger or
\* the upstream is ever made with an empty model
C20_EmptyModelRejected ==
    [][\A p \in Procs :
        /\ pc'[p] \in RouterPcs => loc'[p].model # ""
        /\ (pc'[p] = "done" /\ ret'[p].op = "handle_inference" /\ ret'[p].model = "") =>
              /\ ret'[p].outcome = "return"
              /\ ret'[p].code = 400
              /\ ret'[p].msg = "invalid_request_error"
              /\ ret'[p].text = "model is required"
              /\ ret'[p].trig = 0
              /\ ret'[p].row = NoRow
              /\ pc[p] = "idle" =>
                    UNCHANGED <<instances, nodes, launchCalls, termCalls, apiKeys>>
      ]_vars

\* C20 witness: the router has answered 400 to a request without a model
\* while the configured model has a ready instance
C20_Witness ==
    \E p \in Procs :
        /\ pc[p] = "done"
        /\ ret[p].op = "handle_inference"
        /\ ret[p].model = ""
        /\ ret[p].code = 400
        /\ StatusOf(instances, SlotId("m")) = "ready"

(* claims about the rows of the instances table *)

\* C21 as stated: every instance row whose status is ready has a non-empty
\* ip and a non-empty provider_instance_id
C21_ReadyHasAddress ==
    \A id \in DOMAIN instances :
        instances[id].status = "ready" =>
            /\ instances[id].ip \notin {"", Missing}
            /\ instances[id].provider_instance_id \notin {"", Missing}

\* a step sets last_request_at of a row apart from its launched_at for the
\* first time
FirstDeparture(id) ==
    /\ id \in DOMAIN instances /\ id \in DOMAIN instances'
    /\ instances[id].launched_at # MissingInt
    /\ instances'[id].launched_at = instances[id].launched_at
    /\ instances[id].last_request_at = instances[id].launched_at
    /\ instances'[id].last_request_at # instances'[id].launched_at

\* every row written by a claim has last_request_at = launched_at, and
\* last_request_at is never below launched_at
ClaimedEqualThenNotBelow ==
    /\ \A p \in Procs :
          (pc[p] = "su_claim" /\ Stepped(p) /\ instances' # instances) =>
              LET row == instances'[SlotId(loc[p].model)]
              IN  row.launched_at = now /\ row.last_request_at = row.launched_at
    /\ \A id \in DOMAIN instances' :
          instances'[id].launched_at # MissingInt =>
              instances'[id].last_request_at >= instances'[id].launched_at

\* C22 as stated: last_request_at equals launched_at from the claim until
\* the write handle_inference makes before it proxies a request, and is at
\* least launched_at afterwards
C22_EqualUntilProxied ==
    [][/\ ClaimedEqualThenNotBelow
       /\ \A id \in DOMAIN instances :
             FirstDeparture(id) => \E p \in Procs : pc[p] = "hi_touch" /\ Stepped(p)
      ]_vars

\* C22 amended: last_request_at equals launched_at from the claim until
\* scale_up marks the slot ready or handle_inference proxies a request,
\* whichever writes first, and is at least launched_at throughout
C22_EqualUntilReadyOrProxied ==
    [][/\ ClaimedEqualThenNotBelow
       /\ \A id \in DOMAIN instances :
             FirstDeparture(id) =>
                 \E p \in Procs :
                     /\ Stepped(p)
                     /\ \/ pc[p] = "hi_touch"
                        \/ pc[p] = "su_health" /\ instances'[id].status = "ready"
      ]_vars

\* C22 witness: scale_up has marked its slot ready at a later clock reading
\* than its claim, and no request has been proxied to it since
C22_Witness ==
    \E p \in Procs :
        /\ pc[p] = "done"
        /\ ret[p].op = "scale_up"
        /\ ret[p].claimed = "true"
        /\ ret[p].row.status = "ready"
        /\ StatusOf(instances, ret[p].row.instance_id) = "ready"
        /\ instances[ret[p].row.instance_id].launched_at = ret[p].row.launched_at
        /\ instances[ret[p].row.instance_id].last_request_at > ret[p].row.launched_at
        /\ \A q \in Procs : pc[q] \notin RouterPcs /\ ret[q].op # "handle_inference"

(* claims about the primitives of the state store *)

\* the fields update_instance is called with by the call made at each label
NamedFields(label) ==
    CASE label \in {"su_launch_failed", "su_mark_terminated", "sd_check", "sd_mark", "ms_mark"}
            -> {"status"}
      [] label = "su_write_launch" -> {"provider_instance_id", "ip"}
      [] label = "su_health" -> {"status", "last_request_at"}
      [] label = "hi_touch" -> {"last_request_at"}
      [] OTHER -> {}

\* C23 as stated: a call of update_instance adds no row to the instances
\* table, and on an existing row changes only the fields it names
C23_UpdateCreatesNoRow ==
    [][\A p \in Procs :
        (Stepped(p) /\ NamedFields(pc[p]) # {}) =>
            /\ DOMAIN instances' = DOMAIN instances
            /\ \A id \in DOMAIN instances : \A k \in DOMAIN NoRow \ NamedFields(pc[p]) :
                  instances'[id][k] = instances[id][k]
      ]_vars

\* the call of put_instance_if_absent made by p in this step returned True
ClaimReturnsTrue(p) == pc[p] = "su_claim" /\ pc'[p] = "su_launch"

StoredRows == {instances[id] : id \in DOMAIN instances}

\* C25 as stated: the unfiltered listing and the listing filtered by model
\* alone never contain a terminated row
C25_ListingsHideTerminated ==
    \A model \in ModelNames \cup {Missing} :
        \A r \in ListSet(instances, model, Missing) : r.status # "terminated"

\* C25 amended: a listing holds exactly the stored rows that match the
\* filters given; so a terminated row is in the unfiltered listing and in the
\* listing by its model alone, and in a listing by status only when that
\* status is terminated
C25_ListingsMatchFilters ==
    /\ \A model \in ModelNames \cup {Missing} : \A status \in Statuses \cup {Missing} :
          ListSet(instances, model, status) =
              {r \in StoredRows : /\ model = Missing \/ r.model = model
                                  /\ status = Missing \/ r.status = status}
    /\ \A r \in StoredRows :
          r.status = "terminated" =>
              /\ r \in ListSet(instances, Missing, Missing)
              /\ r \in ListSet(instances, r.model, Missing)
              /\ \A status \in Statuses \ {"terminated"} :
                    r \notin ListSet(instances, Missing, status)

\* C25 witness: get_cluster_state has taken the unfiltered listing of a
\* table holding a tombstone, and dropped the tombstone itself
C25_Witness ==
    \E p \in Procs :
        /\ pc[p] = "done"
        /\ ret[p].op = "get_cluster_state"
        /\ ret[p].listed = << >>
        /\ \E r \in ListSet(instances, Missing, Missing) : r.status = "terminated"

(* claims about a scale_up whose process dies after the claim (SpecCrash) *)

\* the slot of model m is starting and its owner is dead: a process died
\* while it held the claim of m and no live scale_up holds it
Orphaned(m) ==
    /\ SlotId(m) \in DOMAIN instances
    /\ instances[SlotId(m)].status = "starting"
    /\ \E p \in Procs : pc[p] = "crashed" /\ loc[p].model = m
    /\ \A q \in Procs : pc[q] \in OwnerPcs => loc[q].model # m

\* C26 as stated: once the owner of a starting slot has died, no step of
\* scale_up, scale_down or handle_inference changes or deletes the slot, no
\* node is launched for the model, a scale_up that lists the slot returns it
\* at the fast path, and a request that looks the model up is answered 503
C26_OrphanStaysStarting ==
    [][\A m \in ModelNames :
        Orphaned(m) =>
            /\ SlotId(m) \in DOMAIN instances'
            /\ instances'[SlotId(m)] = instances[SlotId(m)]
            /\ launchCalls'[m] = launchCalls[m]
            /\ \A p \in Procs :
                  (pc[p] = "su_list_starting" /\ loc[p].model = m /\ Stepped(p)) =>
                      /\ pc'[p] = "su_list_ready"
                      /\ loc'[p].rows = <<instances[SlotId(m)]>>
            /\ \A p \in Procs :
                  (pc[p] = "hi_list" /\ loc[p].model = m /\ Stepped(p)) =>
                      pc'[p] = "done" /\ ret'[p].code = 503
      ]_vars

(* claims about scale_up calls whose processes do not die (SpecScaleUpFair) *)

\* the step in which the winner of a claim ends its call
WinnerEnds(p) == pc[p] \in OwnerPcs /\ pc'[p] = "done"

\* C27: absent a crash, a scale_up that has won the claim ends (it returns,
\* or re-raises the launch error), and its last write leaves the slot ready
\* or terminated, never starting: when the health gate passed it returns the
\* record of the slot "model#<name>" with status ready and the provider id
\* its launch returned, and the stored row is ready; otherwise the stored
\* row is terminated, and so is the record it returns
C27_WinnerEndsReadyOrTerminated ==
    /\ \A p \in Procs : (pc[p] \in OwnerPcs) ~> (pc[p] = "done")
    /\ [][\A p \in Procs :
            WinnerEnds(p) =>
                LET id == SlotId(loc[p].model)
                IN  /\ StatusOf(instances', id) \in {"ready", "terminated"}
                    /\ ret'[p].outcome \in {"return", "LaunchError"}
                    /\ ret'[p].outcome = "return" <=> pc[p] \in {"su_health", "su_mark_terminated"}
                    /\ pc[p] = "su_health" =>
                          /\ TRUE \in poll_health(loc[p].ip)
                          /\ ret'[p].row.instance_id = id
                          /\ ret'[p].row.status = "ready"
                          /\ ret'[p].row.provider_instance_id = loc[p].prov
                          /\ loc[p].prov # Missing
                          /\ StatusOf(instances', id) = "ready"
                    /\ pc[p] = "su_mark_terminated" =>
                          /\ ret'[p].row.instance_id = id
                          /\ ret'[p].row.status = "terminated"
                          /\ StatusOf(instances', id) = "terminated"
                    /\ pc[p] = "su_launch_failed" => StatusOf(instances', id) = "terminated"
        ]_vars

\* C27 witness: every call has ended, one of them launched the only node,
\* passed the health gate and returned the ready slot
C27_Witness ==
    /\ AllDone
    /\ launchCalls["m"] = 1
    /\ \E p \in Procs :
          /\ ret[p].claimed = "true"
          /\ ret[p].row.status = "ready"
          /\ ret[p].row.provider_instance_id = NodeId(1)
          /\ StatusOf(instances, SlotId("m")) = "ready"

(* claims about scale_down run periodically on an idle instance (SpecReap) *)

\* the slot of "m" is ready and has been idle for longer than idle_timeout
ReadyAndIdle ==
    /\ StatusOf(instances, SlotId("m")) = "ready"
    /\ now - instances[SlotId("m")].last_request_at > TimeoutOfRow(instances[SlotId("m")])

\* the slot of "m" is terminated and compute.terminate was called for its node
Reaped ==
    /\ StatusOf(instances, SlotId("m")) = "terminated"
    /\ TermCount(NodeId(1)) >= 1

\* C28: with scale_down run periodically and no further request, a ready
\* instance whose idle time exceeds its model's idle_timeout is eventually
\* terminated: its row is terminated and compute.terminate was called for
\* its provider id
C28_IdleInstanceEventuallyReaped == ReadyAndIdle ~> Reaped

\* C28 witness: the clock has passed the timeout and a scale_down has
\* returned the slot it terminated
C28_Witness ==
    /\ Reaped
    /\ instances[SlotId("m")].provider_instance_id = NodeId(1)
    /\ \E p \in Procs :
          /\ pc[p] = "done"
          /\ ret[p].op = "scale_down"
          /\ ret[p].ids = <<SlotId("m")>>
          /\ now - instances[SlotId("m")].last_request_at > IdleTimeout

(* claims about the cluster API (SpecFrame) *)

\* the ids of the stored rows of model m whose status is in S
IdsIn(m, S) == {id \in DOMAIN instances : instances[id].model = m /\ instances[id].status \in S}

\* C29: get_cluster_state reports for each configured model the status
\* ready iff one of its instances is ready, else warming if one is starting
\* or draining, else cold, with ready_count, starting_count and
\* instance_count counting its rows that are not terminated; the instances
\* it returns are the stored rows that are not terminated; it writes nothing
C29_ClusterStateSummary ==
    [][\A p \in Procs :
        /\ (pc[p] \in {"gc_list_models", "gc_list_instances"} /\ Stepped(p)) =>
              UNCHANGED <<instances, apiKeys, nodes, launchCalls, termCalls>>
        /\ (pc[p] = "gc_list_instances" /\ Stepped(p)) =>
              /\ pc'[p] = "done"
              /\ ret'[p].op = "get_cluster_state"
              /\ ret'[p].outcome = "return"
              /\ DOMAIN ret'[p].cluster = Configured
              /\ \A m \in Configured :
                    LET ready == IdsIn(m, {"ready"})
                        warming == IdsIn(m, {"starting", "draining"})
                        reported == ret'[p].cluster[m]
                    IN  /\ reported.name = m
                        /\ reported.status \in {"ready", "warming", "cold"}
                        /\ reported.status = "ready" <=> ready # {}
                        /\ reported.status = "warming" <=> (ready = {} /\ warming # {})
                        /\ reported.ready_count = Cardinality(ready)
                        /\ reported.starting_count = Cardinality(warming)
                        /\ reported.instance_count = Cardinality(ready) + Cardinality(warming)
              /\ Range(ret'[p].listed) = {r \in StoredRows : r.status # "terminated"}
              /\ Len(ret'[p].listed) = Cardinality(Range(ret'[p].listed))
      ]_vars

\* C29 witness: get_cluster_state has reported a model as warming whose
\* only instance is draining
C29_Witness ==
    \E p \in Procs :
        /\ pc[p] = "done"
        /\ ret[p].op = "get_cluster_state"
        /\ ret[p].cluster["m"].status = "warming"
        /\ ret[p].cluster["m"].starting_count = 1
        /\ ret[p].cluster["m"].instance_count = 1
        /\ StatusOf(instances, SlotId("m")) = "draining"

(* claims about the keys API and the authorizer (SpecFrame) *)

\* C30 as stated: create_key stores a record keyed by the hash of the token
\* it returns, under the caller's email and with no field holding the token;
\* validate_api_key applied to that token, while the record is stored,
\* yields (True, email) and sets the record's last_used_at
C30_KeyRoundTrip ==
    [][\A p \in Procs :
        /\ (pc[p] = "ck_put" /\ Stepped(p)) =>
              LET h == hash_api_key(ret'[p].token)
              IN  /\ ret'[p].token = loc[p].token
                  /\ h \in DOMAIN apiKeys'
                  /\ apiKeys'[h].key_hash = h
                  /\ apiKeys'[h].email = loc[p].email
                  /\ DOMAIN apiKeys'[h] = {"key_hash", "email", "name", "created_at", "last_used_at"}
                  /\ \A k \in {"key_hash", "email", "name"} : apiKeys'[h][k] # ret'[p].token
        /\ (pc[p] = "vk_get" /\ Stepped(p) /\ hash_api_key(loc[p].token) \in DOMAIN apiKeys) =>
              pc'[p] = "vk_touch"
        /\ (pc[p] = "vk_touch" /\ Stepped(p)) =>
              /\ ret'[p].outcome = "return"
              /\ ret'[p].ok
              /\ ret'[p].email = loc[p].email
              /\ \A h \in DOMAIN apiKeys :
                    (h = hash_api_key(loc[p].token)) =>
                        /\ apiKeys[h].email = loc[p].email
                        /\ apiKeys'[h].last_used_at = now
      ]_vars

(* claims about delete_key and validate_api_key (SpecKeys) *)

\* the key with hash h was created and is stored no longer
Deleted(h) ==
    /\ h \notin DOMAIN apiKeys
    /\ \E n \in 1..issued :
          /\ h = hash_api_key(Token(n))
          /\ \A p \in Procs : ~(pc[p] = "ck_put" /\ loc[p].token = Token(n))

\* C31: delete_key returns False and leaves the key table unchanged when
\* the key is absent or belongs to another email; for the owner it removes
\* the row and only that row; a deleted key never comes back, and a
\* validate_api_key that looks its token up from then on returns (False, None)
C31_DeleteKeyRequiresOwner ==
    [][/\ \A p \in Procs :
            /\ (pc[p] = "dk_get" /\ Stepped(p)) =>
                  /\ apiKeys' = apiKeys
                  /\ IF loc[p].key \notin DOMAIN apiKeys \/ apiKeys[loc[p].key].email # loc[p].email
                     THEN pc'[p] = "done" /\ ret'[p].outcome = "return" /\ ~ret'[p].ok
                     ELSE pc'[p] = "dk_delete"
            /\ (pc[p] = "dk_delete" /\ Stepped(p)) =>
                  /\ pc'[p] = "done" /\ ret'[p].outcome = "return" /\ ret'[p].ok
                  /\ DOMAIN apiKeys' = DOMAIN apiKeys \ {loc[p].key}
                  /\ \A h \in DOMAIN apiKeys' : apiKeys'[h] = apiKeys[h]
            /\ (pc[p] = "vk_get" /\ Stepped(p) /\ Deleted(hash_api_key(loc[p].token))) =>
                  /\ pc'[p] = "done"
                  /\ ret'[p].outcome = "return"
                  /\ ~ret'[p].ok
                  /\ ret'[p].email = Missing
       /\ \A h \in KeyIdInputs : Deleted(h) => h \notin DOMAIN apiKeys'
      ]_vars

\* C31 witness: the owner has deleted the key, and validate_api_key of its
\* token has returned (False, None)
C31_Witness ==
    \E p, q \in Procs :
        /\ pc[p] = "done" /\ ret[p].op = "delete_key" /\ ret[p].ok
        /\ Deleted(ret[p].key_id)
        /\ pc[q] = "done" /\ ret[q].op = "validate_api_key" /\ ~ret[q].ok
        /\ hash_api_key(ret[q].token) = ret[p].key_id

\* validate_api_key(token) is called by p in this step
ValidateCalled(p, token) ==
    /\ pc[p] = "idle"
    /\ \/ pc'[p] = "vk_get" /\ loc'[p].token = token
       \/ pc'[p] = "done" /\ ret'[p].op = "validate_api_key" /\ ret'[p].token = token

\* p returns (False, None) in this step and no key record changes
RejectsUnchanged(p) ==
    /\ pc'[p] = "done"
    /\ ret'[p].op = "validate_api_key"
    /\ ret'[p].outcome = "return"
    /\ ~ret'[p].ok
    /\ ret'[p].email = Missing
    /\ apiKeys' = apiKeys

\* C32: validate_api_key returns (False, None) for the empty token, for a
\* token that does not begin with "dio-", and for a well-formed token whose
\* hash has no key record, and changes no key record in any of these cases
C32_InvalidTokensRejected ==
    [][\A p \in Procs :
        /\ \A t \in TokenInputs :
              (ValidateCalled(p, t) /\ (t = "" \/ Len(t) < 4 \/ SubSeq(t, 1, 4) # "dio-")) =>
                  RejectsUnchanged(p)
        /\ (pc[p] = "vk_get" /\ Stepped(p) /\ hash_api_key(loc[p].token) \notin DOMAIN apiKeys) =>
              RejectsUnchanged(p)
        /\ (pc[p] = "vk_get" /\ Stepped(p)) => apiKeys' = apiKeys
      ]_vars

\* C32 witness: a well-formed token without a record was rejected while a
\* record of another token is stored, its last_used_at as it was created
C32_Witness ==
    \E p \in Procs : \E h \in DOMAIN apiKeys :
        /\ pc[p] = "done"
        /\ ret[p].op = "validate_api_key"
        /\ ret[p].token = "dio-unknown"
        /\ ~ret[p].ok
        /\ apiKeys[h].last_used_at = apiKeys[h].created_at

(* claims about one scale_down call on a store in any state (SpecSweep) *)

\* C33: scale_down acts only on rows it listed with status ready: a row
\* that is starting, draining by another hand, or terminated is not
\* modified and its node is not passed to compute.terminate; the list
\* returned holds exactly the slot ids the call set to terminated
C33_ScaleDownTouchesOnlyReady ==
    [][\A p \in Procs :
        (pc[p] \in ScaleDownPcs /\ Stepped(p)) =>
            LET target == IF loc[p].rows = <<>> THEN NoRow ELSE Head(loc[p].rows)
                mine == pc[p] \in {"sd_terminate", "sd_mark"}
            IN  /\ DOMAIN instances' = DOMAIN instances
                /\ \A id \in DOMAIN instances :
                      instances'[id] # instances[id] =>
                          /\ id = target.instance_id
                          /\ target.status = "ready"
                          /\ instances[id].status = IF mine THEN "draining" ELSE "ready"
                /\ termCalls' # termCalls =>
                      /\ pc[p] = "sd_terminate"
                      /\ target.status = "ready"
                      /\ StatusOf(instances, target.instance_id) = "draining"
                      /\ termCalls' = terminate(termCalls, instances[target.instance_id].provider_instance_id)
                /\ pc[p] = "sd_list" =>
                      /\ Range(loc'[p].rows) = {r \in StoredRows : r.status = "ready"}
                      /\ IF pc'[p] = "done" THEN ret'[p].ids = <<>> ELSE loc'[p].out = <<>>
                /\ LET out == IF pc'[p] = "done" THEN ret'[p].ids ELSE loc'[p].out
                   IN  pc[p] # "sd_list" =>
                          out = IF StatusOf(instances', target.instance_id) = "terminated"
                                   /\ instances'[target.instance_id] # instances[target.instance_id]
                                THEN Append(loc[p].out, target.instance_id)
                                ELSE loc[p].out
      ]_vars

\* C33 witness: a scale_down that ran past the idle timeout has returned
\* the empty list and the slot is still starting, with its node untouched
C33_Witness ==
    \E p \in Procs :
        /\ pc[p] = "done"
        /\ ret[p].op = "scale_down"
        /\ ret[p].ids = <<>>
        /\ SlotId("m") \in DOMAIN instances
        /\ now - instances[SlotId("m")].last_request_at > IdleTimeout
        /\ instances[SlotId("m")].status = "starting"
        /\ instances[SlotId("m")].provider_instance_id = NodeId(1)
        /\ termCalls = << >>

(* claims about manual_scale (SpecFrame) *)

\* the spellings of the two actions manual_scale accepts
UpSpellings == {"up", " UP"}
DownSpellings == {"down", "Down "}

\* the step of p changes no table and calls neither launch nor terminate
WritesNothing == UNCHANGED <<instances, apiKeys, nodes, launchCalls, termCalls>>

\* p raises ValueError out of manual_scale in this step
RaisesValueError(p) ==
    /\ pc'[p] = "done"
    /\ ret'[p].op = "manual_scale"
    /\ ret'[p].outcome = "ValueError"
    /\ ret'[p].trig = 0
    /\ WritesNothing

\* C34: manual_scale raises ValueError and changes nothing for an empty
\* model, an unconfigured model, or an action that is neither up nor down
\* (in any case, with or without surrounding blanks); up triggers one
\* scale-up and changes no row; down marks one instance of the model
\* terminated, the first ready one it listed, else the first starting one,
\* and returns its id, or reports "no running instances" and changes nothing
C34_ManualScale ==
    [][\A p \in Procs :
        /\ (pc[p] = "idle" /\ pc'[p] = "done" /\ ret'[p].op = "manual_scale") =>
              ret'[p].model = "" /\ RaisesValueError(p)
        /\ (pc[p] = "idle" /\ pc'[p] = "ms_get_config") =>
              loc'[p].model # "" /\ WritesNothing
        /\ (pc[p] = "ms_get_config" /\ Stepped(p)) =>
              IF loc[p].model \notin Configured THEN RaisesValueError(p)
              ELSE IF loc[p].action \in UpSpellings
              THEN /\ pc'[p] = "done"
                   /\ ret'[p].outcome = "return"
                   /\ ret'[p].trig = 1
                   /\ ret'[p].model = loc[p].model
                   /\ WritesNothing
              ELSE IF loc[p].action \in DownSpellings
              THEN pc'[p] = "ms_list_ready" /\ WritesNothing
              ELSE RaisesValueError(p)
        /\ (pc[p] = "ms_list_ready" /\ Stepped(p)) =>
              /\ WritesNothing
              /\ IF IdsIn(loc[p].model, {"ready"}) # {}
                 THEN /\ pc'[p] = "ms_mark"
                      /\ loc'[p].rows[1] \in StoredRows
                      /\ loc'[p].rows[1].model = loc[p].model
                      /\ loc'[p].rows[1].status = "ready"
                 ELSE pc'[p] = "ms_list_starting"
        /\ (pc[p] = "ms_list_starting" /\ Stepped(p)) =>
              /\ WritesNothing
              /\ IF IdsIn(loc[p].model, {"starting"}) # {}
                 THEN /\ pc'[p] = "ms_mark"
                      /\ loc'[p].rows[1] \in StoredRows
                      /\ loc'[p].rows[1].model = loc[p].model
                      /\ loc'[p].rows[1].status = "starting"
                 ELSE /\ pc'[p] = "done"
                      /\ ret'[p].outcome = "return"
                      /\ ret'[p].msg = "no running instances"
                      /\ ret'[p].ids = <<>>
                      /\ ret'[p].trig = 0
        /\ (pc[p] = "ms_mark" /\ Stepped(p)) =>
              LET id == loc[p].rows[1].instance_id
              IN  /\ pc'[p] = "done"
                  /\ ret'[p].outcome = "return"
                  /\ ret'[p].ids = <<id>>
                  /\ ret'[p].trig = 0
                  /\ DOMAIN instances' = DOMAIN instances
                  /\ id \in DOMAIN instances
                  /\ instances'[id] = [instances[id] EXCEPT !.status = "terminated"]
                  /\ \A j \in DOMAIN instances \ {id} : instances'[j] = instances[j]
                  /\ UNCHANGED <<apiKeys, nodes, launchCalls, termCalls>>
      ]_vars

\* C34 witness: one manual_scale has marked the slot terminated and returned
\* its id, another has raised ValueError for the unconfigured model
C34_Witness ==
    \E p, q \in Procs :
        /\ pc[p] = "done" /\ ret[p].op = "manual_scale" /\ ret[p].ids = <<SlotId("m")>>
        /\ StatusOf(instances, SlotId("m")) = "terminated"
        /\ pc[q] = "done" /\ ret[q].op = "manual_scale" /\ ret[q].model = "u"
        /\ ret[q].outcome = "ValueError"

(* claims about nodes and the rows that refer to them *)

\* C35 as stated: every terminated row that carries a provider_instance_id
\* has had compute.terminate called with that id
C35_NoNodeBehindTombstone ==
    \A id \in DOMAIN instances :
        (instances[id].status = "terminated" /\ instances[id].provider_instance_id # Missing) =>
            TermCount(instances[id].provider_instance_id) >= 1

\* the labels at which scale_up writes to the slot it claimed
OwnerWritePcs == {"su_launch_failed", "su_write_launch", "su_health", "su_mark_terminated"}

\* p writes to the instances table in this step
WritesRow(p) == Stepped(p) /\ instances' # instances

\* C36 as stated: a post-claim write of a scale_up call lands on the row the
\* call inserted with its claim: the row is there, and the provider id it
\* holds is the one this call has written to it (none before the launch
\* result is stored), not one written by another call
C36_WritesLandOnOwnRow ==
    [][\A p \in Procs :
        (pc[p] \in OwnerWritePcs /\ WritesRow(p)) =>
            LET id == loc[p].ph.instance_id
            IN  /\ id \in DOMAIN instances
                /\ instances[id].provider_instance_id = loc[p].ph.provider_instance_id
                /\ instances[id].launched_at = loc[p].ph.launched_at
      ]_vars

(* claims about the router and scale_down under interleaving (Spec) *)

\* C37 as stated: when handle_inference writes last_request_at to the
\* instance it picked from its listing, the row stored for that instance is
\* present and ready
C37_TouchesOnlyReadyRow ==
    [][\A p \in Procs :
        (pc[p] = "hi_touch" /\ Stepped(p)) =>
            LET id == loc[p].rows[1].instance_id
            IN  /\ id \in DOMAIN instances
                /\ instances[id].status = "ready"
                /\ pc'[p] = "hi_proxy"
      ]_vars

\* p writes status = "draining" in this step
WritesDraining(p) == pc[p] = "sd_check" /\ pc'[p] = "sd_terminate"

\* C38 as stated: when scale_down writes status = draining to a slot, the
\* row stored for the slot is ready and its stored last_request_at lies
\* more than idle_timeout before the time scale_down read
C38_DrainsOnlyIdleReadyRow ==
    [][\A p \in Procs :
        WritesDraining(p) =>
            LET id == Head(loc[p].rows).instance_id
            IN  /\ id \in DOMAIN instances
                /\ instances[id].status = "ready"
                /\ loc[p].nowL - instances[id].last_request_at > TimeoutOfRow(instances[id])
      ]_vars

\* the provider id stored for the slot that p is reaping or has failed to
\* bring up
StoredProviderId(p) ==
    LET id == IF pc[p] = "sd_terminate" THEN Head(loc[p].rows).instance_id
              ELSE loc[p].ph.instance_id
    IN  IF id \in DOMAIN instances THEN instances[id].provider_instance_id ELSE Missing

\* C39 as stated: compute.terminate is called at most once for any provider
\* id, and each call names the provider id stored at that moment in the
\* slot being reaped
C39_TerminateOnceAndCurrent ==
    [][/\ \A i \in DOMAIN termCalls' : termCalls'[i] <= 1
       /\ \A p \in Procs :
            (Stepped(p) /\ termCalls' # termCalls) =>
                /\ pc[p] \in {"sd_terminate", "su_health"}
                /\ StoredProviderId(p) # Missing
                /\ termCalls' = terminate(termCalls, StoredProviderId(p))
      ]_vars

\* p makes a call of a scale_up for a model that has no ModelConfig, and the
\* call does not raise anything other than the ValueError "Unknown model"
StepOfUnknownModelCall(p) ==
    /\ Stepped(p)
    /\ pc[p] \in {"su_list_starting", "su_list_ready", "su_list_terminated",
                  "su_delete", "su_get_config"}
    /\ get_model_config(loc[p].model) = NoConfig
    /\ ret'[p].outcome \in {NoRet.outcome, "ValueError"}

\* C40 as stated: a scale_up call that fails with the ValueError for an
\* unknown model writes nothing to the instances table at any of its calls:
\* no row is created, modified or deleted, tombstones of that model included
C40_UnknownModelLeavesTable ==
    [][\A p \in Procs : StepOfUnknownModelCall(p) => instances' = instances]_vars

====
